---- MODULE Spec2Model ----
(***************************************************************************)
(* A model of the ColonyOS Rust SDK: the identity and signature engine     *)
(* (src/src/crypto.rs), the signed-envelope request/reply protocol and the *)
(* WebSocket subscriptions (src/src/rpc.rs) and the public operations      *)
(* built on them (src/src/lib.rs).                                         *)
(*                                                                         *)
(* Text is a sequence of byte values.  The secp256k1 group and SHA3-256    *)
(* are replaced by a curve of the same shape over a small field and by a   *)
(* one-byte digest, so that scalars, coordinates and digests are one byte  *)
(* wide instead of thirty-two; every step of the code (hex coding, key     *)
(* validation, hashing, signing with low-s normalisation, recovery) is     *)
(* kept.                                                                   *)
(***************************************************************************)
EXTENDS Integers, Sequences, FiniteSets, TLC

VARIABLES
    \* ---- rpc.rs: two send_ws_subscribe_channel sessions side by side
    sess,          \* for each session: its locals, its socket and what it returned
    \* ---- rpc.rs: the client-side deadline of send_ws_subscribe_channel
    dlTimeout,     \* the timeout_secs argument
    dlBuild,       \* "debug" (overflow checks on) or "release"
    dlResult,      \* what the computation of client_timeout gave, or None
    \* ---- crypto.rs: key generation, and calls made a second time
    osRng,         \* the bytes OsRng gives next
    newKey,        \* Some(what gen_prvkey returned), or None
    hashOut,       \* Some(what gen_hash(message) returned), or None
    idAgain,       \* what the second gen_id(prvkey) returned, or None
    sigAgain,      \* what the second gen_signature(message, prvkey) returned, or None
    \* ---- rpc.rs: one operation running beside set_server_url
    reqKind,       \* "rpc" (send_rpcmsg) or "ws" (a subscription)
    reqPc,         \* "start", "connecting", "done"
    reqUrl,        \* the local holding the URL the operation read
    reqSeen,       \* the stored URL at the moment of that read
    reqReads,      \* how many times the operation has read SERVER_URL
    reqTarget,     \* the endpoint the operation connected to, or None
    \* ---- rpc.rs: one request composed and decoded again
    composeCall,   \* the compose function called and its arguments
    composeKey,    \* the private key handed to it
    wire,          \* the wire body it returned, or None
    decoded,       \* what decoding the wire body gave, or None
    \* ---- rpc.rs: the configured server URL and the threads calling on it
    serverUrl,     \* the content of SERVER_URL: None or Some(text)
    urlPc,         \* per thread: "idle", "setting" (set_server_url entered),
                   \* "written" (its write is done, it has not returned yet)
    urlArg,        \* per thread: the argument of its set_server_url call
    urlRet,        \* per thread: what its last get_server_url / get_ws_url
                   \* returned and the history at the time of its read, or None
    lastWritten,   \* history: Some(argument) of the latest write, or None
    lastCompleted, \* history: Some(argument) of the set_server_url call that
                   \* returned last, or None
    \* ---- crypto.rs: one caller exercising the signature engine
    prvkey,        \* the hex text of the private key handed to the calls
    message,       \* the text that is signed
    id,            \* result of gen_id(prvkey), or None
    signature,     \* result of gen_signature(message, prvkey), or None
    recovered,     \* result of recid(message, signature), or None
    rpcmsg,        \* result of compose_rpcmsg(.., message, prvkey), or None
    envRecovered,  \* result of recid(rpcmsg.payload, rpcmsg.signature), or None
    foreign,       \* a signature text from elsewhere and recid(message, it), or None
    tampered,      \* a changed envelope payload and recid(it, rpcmsg.signature), or None
    \* ---- lib.rs / rpc.rs: one request-response operation
    op,            \* the public operation called
    rpcPc,         \* "start", "awaiting" (POST issued), "done"
    resp,          \* what came back for the POST, or None
    sendResult,    \* what send_rpcmsg returned, or None
    opResult,      \* what the public operation returned, or None
    posts,         \* number of POSTs issued
    \* ---- rpc.rs: one WebSocket subscription session and its server
    wsFn,          \* "channel" (send_ws_subscribe_channel) or "process"
    wsPc,          \* "connecting", "sending", "listening", "done"
    timeoutSecs,   \* the timeout_secs argument
    now,           \* seconds since the call was issued
    listenStart,   \* when the subscription frame had been written
    readStart,     \* when the pending timeout(client_timeout, read.next()) began
    inbox,         \* stream items the server has sent and the client has not read
    framesSent,    \* number of stream items the server has sent
    allEntries,    \* the all_entries buffer
    callbackLog,   \* the consumer's invocations: its argument and its answer
    lastItem,      \* the stream item read last, or NoItem
    endCause,      \* the branch of the code that ended the session, "" before
    wsResult,      \* what the call returned, or None
    wsConnects,    \* number of connect_async calls, counted as the connect ends
    wsWrites       \* number of write.send calls for the subscription frame

pairVars == <<sess>>

deadlineVars == <<dlTimeout, dlBuild, dlResult>>

keyVars == <<osRng, newKey, hashOut, idAgain, sigAgain>>

reqVars == <<reqKind, reqPc, reqUrl, reqSeen, reqReads, reqTarget>>

composeVars == <<composeCall, composeKey, wire, decoded>>

urlVars == <<serverUrl, urlPc, urlArg, urlRet, lastWritten, lastCompleted>>

cryptoVars == <<prvkey, message, id, signature, recovered, rpcmsg, envRecovered,
                foreign, tampered>>

rpcVars == <<op, rpcPc, resp, sendResult, opResult, posts>>

wsVars == <<wsFn, wsPc, timeoutSecs, now, listenStart, readStart, inbox, framesSent,
            allEntries, callbackLog, lastItem, endCause, wsResult, wsConnects, wsWrites>>

None == [tag |-> "none"]
Some(v) == [tag |-> "some", val |-> v]
Ok(v) == [tag |-> "ok", val |-> v]
\* RPCError::new(msg, connection_error)
RPCError(m, conn) == [tag |-> "err", details |-> m, connection_error |-> conn]
Panic(m) == [tag |-> "panic", msg |-> m]

(***************************************************************************)
(* Bounds of the model.                                                    *)
(***************************************************************************)
\* private keys are the one-byte scalars 0..MaxKeyByte (0 and >= CurveN invalid)
MaxKeyByte == 32
\* signed texts are the texts over MsgAlphabet of at most MaxMsgLen bytes
MaxMsgLen == 2
\* the clock stops once it has reached MaxTime seconds
MaxTime == 20
\* subscribe_channel is called with a timeout of 0..MaxTimeoutSteps clock steps
MaxTimeoutSteps == 1
\* the server sends at most MaxFrames stream items in a session
MaxFrames == 3
\* at most MaxInbox stream items wait unread in the socket
MaxInbox == 1
\* host names are the texts over HostAlphabet of 1..MaxHostLen bytes
MaxHostLen == 3

----------------------------------------------------------------------------
(***************************************************************************)
(* Sequences of bytes.                                                     *)
(***************************************************************************)
RECURSIVE Concat(_)
Concat(ss) ==
    IF ss = <<>> THEN <<>>
    ELSE IF Len(ss) = 1 THEN ss[1]
    ELSE Concat(SubSeq(ss, 1, Len(ss) \div 2))
             \o Concat(SubSeq(ss, Len(ss) \div 2 + 1, Len(ss)))

\* hex::encode: two lower-case hex digits per byte
HexChar(nib) == IF nib < 10 THEN 48 + nib ELSE 87 + nib

\* a byte below sixteen written as one character
HexEncode_NoLeadingZero(bytes) ==
    Concat([i \in 1..Len(bytes) |->
              IF bytes[i] < 16 THEN <<HexChar(bytes[i])>>
              ELSE <<HexChar(bytes[i] \div 16), HexChar(bytes[i] % 16)>>])

HexEncode(bytes) ==
    Concat([i \in 1..Len(bytes) |->
              <<HexChar(bytes[i] \div 16), HexChar(bytes[i] % 16)>>])

\* the value of a hex digit, -1 when the character is none
HexVal(c) ==
    IF c >= 48 /\ c <= 57 THEN c - 48
    ELSE IF c >= 97 /\ c <= 102 THEN c - 87
    ELSE IF c >= 65 /\ c <= 70 THEN c - 55
    ELSE -1

\* hex::decode: fails on an odd length or on a character that is no hex digit
HexDecode(text) ==
    IF Len(text) % 2 # 0 \/ \E i \in 1..Len(text) : HexVal(text[i]) < 0
    THEN [ok |-> FALSE]
    ELSE [ok |-> TRUE,
          bytes |-> [i \in 1..(Len(text) \div 2) |->
                       16 * HexVal(text[2 * i - 1]) + HexVal(text[2 * i])]]

\* the base64 STANDARD alphabet: A-Z a-z 0-9 + /
B64Char(v) ==
    IF v < 26 THEN 65 + v
    ELSE IF v < 52 THEN 71 + v
    ELSE IF v < 62 THEN v - 4
    ELSE IF v = 62 THEN 43 ELSE 47

\* BASE64.encode: three bytes give four characters, the tail is padded with '='
RECURSIVE Base64Encode(_)
Base64Encode(bytes) ==
    IF bytes = <<>> THEN <<>>
    ELSE IF Len(bytes) = 1
    THEN <<B64Char(bytes[1] \div 4), B64Char((bytes[1] % 4) * 16), 61, 61>>
    ELSE IF Len(bytes) = 2
    THEN <<B64Char(bytes[1] \div 4),
           B64Char((bytes[1] % 4) * 16 + bytes[2] \div 16),
           B64Char((bytes[2] % 16) * 4), 61>>
    ELSE <<B64Char(bytes[1] \div 4),
           B64Char((bytes[1] % 4) * 16 + bytes[2] \div 16),
           B64Char((bytes[2] % 16) * 4 + bytes[3] \div 64),
           B64Char(bytes[3] % 64)>>
         \o Base64Encode(SubSeq(bytes, 4, Len(bytes)))

\* the value of a base64 character, -1 when the character is none
B64Val(c) ==
    IF c >= 65 /\ c <= 90 THEN c - 65
    ELSE IF c >= 97 /\ c <= 122 THEN c - 71
    ELSE IF c >= 48 /\ c <= 57 THEN c + 4
    ELSE IF c = 43 THEN 62
    ELSE IF c = 47 THEN 63
    ELSE -1

\* BASE64.decode: groups of four characters, padding only in the last group
\* and no stray bits before it
RECURSIVE Base64Decode(_)
Base64Decode(text) ==
    IF text = <<>> THEN [ok |-> TRUE, bytes |-> <<>>]
    ELSE IF Len(text) < 4 THEN [ok |-> FALSE]
    ELSE LET a == B64Val(text[1])
             b == B64Val(text[2])
             c == B64Val(text[3])
             d == B64Val(text[4])
             last == Len(text) = 4
         IN  IF a < 0 \/ b < 0 THEN [ok |-> FALSE]
             ELSE IF text[3] = 61
             THEN IF text[4] = 61 /\ last /\ b % 16 = 0
                  THEN [ok |-> TRUE, bytes |-> <<a * 4 + b \div 16>>]
                  ELSE [ok |-> FALSE]
             ELSE IF c < 0 THEN [ok |-> FALSE]
             ELSE IF text[4] = 61
             THEN IF last /\ c % 4 = 0
                  THEN [ok |-> TRUE,
                        bytes |-> <<a * 4 + b \div 16, (b % 16) * 16 + c \div 4>>]
                  ELSE [ok |-> FALSE]
             ELSE IF d < 0 THEN [ok |-> FALSE]
             ELSE LET rest == Base64Decode(SubSeq(text, 5, Len(text)))
                  IN  IF ~rest.ok THEN [ok |-> FALSE]
                      ELSE [ok |-> TRUE,
                            bytes |-> <<a * 4 + b \div 16, (b % 16) * 16 + c \div 4,
                                        (c % 4) * 64 + d>> \o rest.bytes]

(***************************************************************************)
(* SHA3-256, reduced to a digest of one byte.                              *)
(***************************************************************************)
\* Each byte c takes the state h to (h * 33 + c + 1) % 251.  What a text
\* does to the state is h |-> (h * mul + add) % 251, put together from what
\* its two halves do.
RECURSIVE AbsorbMap(_)
AbsorbMap(text) ==
    IF text = <<>> THEN [mul |-> 1, add |-> 0]
    ELSE IF Len(text) = 1 THEN [mul |-> 33, add |-> (text[1] + 1) % 251]
    ELSE LET l == AbsorbMap(SubSeq(text, 1, Len(text) \div 2))
             r == AbsorbMap(SubSeq(text, Len(text) \div 2 + 1, Len(text)))
         IN  [mul |-> (l.mul * r.mul) % 251, add |-> (l.add * r.mul + r.add) % 251]

Absorb(h, text) == LET m == AbsorbMap(text) IN (h * m.mul + m.add) % 251

Sha3_256(text) == <<Absorb(7, text)>>

(***************************************************************************)
(* The curve y^2 = x^3 + 7 over F_CurveP, of prime order CurveN < CurveP   *)
(* (the shape of secp256k1).  A point is <<x, y>>, the identity is <<>>.   *)
(***************************************************************************)
CurveP == 43
CurveN == 31
CurveG == <<2, 12>>

InvMod(a, m) == CHOOSE i \in 1..(m - 1) : (i * a) % m = 1

OnCurve(x, y) == (y * y) % CurveP = (x * x * x + 7) % CurveP

PointAdd(P, Q) ==
    IF P = <<>> THEN Q
    ELSE IF Q = <<>> THEN P
    ELSE IF P[1] = Q[1] /\ (P[2] + Q[2]) % CurveP = 0 THEN <<>>
    ELSE LET l == IF P = Q
                  THEN (3 * P[1] * P[1] * InvMod((2 * P[2]) % CurveP, CurveP)) % CurveP
                  ELSE ((Q[2] - P[2]) * InvMod((Q[1] - P[1]) % CurveP, CurveP)) % CurveP
             x == (l * l - P[1] - Q[1]) % CurveP
         IN  <<x, (l * (P[1] - x) - P[2]) % CurveP>>

RECURSIVE PointMul(_, _)
PointMul(k, P) == IF k = 0 THEN <<>> ELSE PointAdd(P, PointMul(k - 1, P))

\* SigningKey::from_slice: one scalar of the field width, 0 < d < n
SigningKeyFromSlice(bytes) ==
    IF Len(bytes) = 1 /\ bytes[1] > 0 /\ bytes[1] < CurveN
    THEN [ok |-> TRUE, d |-> bytes[1]]
    ELSE [ok |-> FALSE]

\* to_encoded_point(false): the tag byte 0x04, then x, then y
EncodedPoint(P) == <<4, P[1], P[2]>>

\* the digest left out of the scalar
DigestScalar_IgnoresDigest(digest) == 1

\* bits2field and reduction of the digest to a scalar
DigestScalar(digest) == digest[1] % CurveN

(***************************************************************************)
(* sign_prehash_recoverable: deterministic nonce (RFC 6979, which passes   *)
(* over a candidate k giving r = 0 or s = 0), r = (k.G).x mod n,           *)
(* s = (z + r.d)/k, the recovery id (bit 0: y is odd, bit 1: x was         *)
(* reduced), then low-s normalisation, which flips bit 0.                  *)
(***************************************************************************)
RawSign(z, d, k) ==
    LET R == PointMul(k, CurveG)
        r == R[1] % CurveN
        s == (InvMod(k, CurveN) * (z + r * d)) % CurveN
        v == (R[2] % 2) + (IF R[1] >= CurveN THEN 2 ELSE 0)
    IN  [r |-> r, s |-> s, v |-> v]

NonceCandidate(z, d, i) == ((d * 7 + z * 3 + i) % (CurveN - 1)) + 1

\* the nonce taken from the random generator
Rfc6979Nonce_FromRng(z, d) == NonceCandidate(z, d, osRng[1])

Rfc6979Nonce(z, d) ==
    LET good(i) == LET sg == RawSign(z, d, NonceCandidate(z, d, i))
                   IN  sg.r # 0 /\ sg.s # 0
        first == CHOOSE i \in 0..(CurveN - 2) :
                     good(i) /\ \A j \in 0..(i - 1) : ~good(j)
    IN  NonceCandidate(z, d, first)

FlipYOdd(v) == IF v % 2 = 0 THEN v + 1 ELSE v - 1

NormalizeS(sg) ==
    IF 2 * sg.s > CurveN
    THEN [sg EXCEPT !.s = CurveN - sg.s, !.v = FlipYOdd(sg.v)]
    ELSE sg

SignPrehashRecoverable(d, digest) ==
    LET z == DigestScalar(digest)
    IN  NormalizeS(RawSign(z, d, Rfc6979Nonce(z, d)))

(***************************************************************************)
(* VerifyingKey::recover_from_prehash: R from r (plus n when bit 1 is set) *)
(* and the parity of y, then Q = (s.R - z.G)/r; fails when no point has    *)
(* that x.                                                                 *)
(***************************************************************************)
RecoverFromPrehash(digest, r, s, v) ==
    LET z == DigestScalar(digest)
        x == r + (IF v >= 2 THEN CurveN ELSE 0)
        ys == {y \in 0..(CurveP - 1) : OnCurve(x, y) /\ y % 2 = v % 2}
    IN  IF x >= CurveP \/ ys = {} THEN [ok |-> FALSE]
        ELSE LET R == <<x, CHOOSE y \in ys : TRUE>>
                 ri == InvMod(r, CurveN)
                 Q == PointAdd(PointMul((CurveN - ((ri * z) % CurveN)) % CurveN, CurveG),
                               PointMul((ri * s) % CurveN, R))
             IN  IF Q = <<>> THEN [ok |-> FALSE] ELSE [ok |-> TRUE, point |-> Q]

----------------------------------------------------------------------------
(***************************************************************************)
(* crypto.rs                                                               *)
(***************************************************************************)
\* the identity of a public point: hex(SHA3(hex(04 | x | y)))
PointId(P) == HexEncode(Sha3_256(HexEncode(EncodedPoint(P))))

gen_id(private_key) ==
    LET dec == HexDecode(private_key)
    IN  IF ~dec.ok THEN Panic("Invalid hex private key")
        ELSE LET key == SigningKeyFromSlice(dec.bytes)
             IN  IF ~key.ok THEN Panic("Invalid private key")
                 ELSE Ok(PointId(PointMul(key.d, CurveG)))

\* sig_bytes extended by the recovery id: r, s, v
SigWithRecid(sg) == <<sg.r, sg.s, sg.v>>

\* r and s copied to each other's place
SigWithRecid_SwappedRS(sg) == <<sg.s, sg.r, sg.v>>

\* gen_signature with r and s copied to each other's place
gen_signature_SwappedRS(msg, private_key) ==
    LET dec == HexDecode(private_key)
    IN  IF ~dec.ok THEN Panic("Invalid hex private key")
        ELSE LET key == SigningKeyFromSlice(dec.bytes)
             IN  IF ~key.ok THEN Panic("Invalid private key")
                 ELSE Ok(HexEncode(SigWithRecid_SwappedRS(
                             SignPrehashRecoverable(key.d, Sha3_256(msg)))))

gen_signature(msg, private_key) ==
    LET dec == HexDecode(private_key)
    IN  IF ~dec.ok THEN Panic("Invalid hex private key")
        ELSE LET key == SigningKeyFromSlice(dec.bytes)
             IN  IF ~key.ok THEN Panic("Invalid private key")
                 ELSE Ok(HexEncode(SigWithRecid(
                             SignPrehashRecoverable(key.d, Sha3_256(msg)))))

gen_hash(msg) == HexEncode(Sha3_256(msg))

recid(msg, sig) ==
    LET dec == HexDecode(sig)
    IN  IF ~dec.ok THEN Panic("Invalid hex signature")
        ELSE IF Len(dec.bytes) # 3 THEN Panic("Invalid signature length")
        ELSE LET r == dec.bytes[1]
                 s == dec.bytes[2]
                 v == dec.bytes[3]
             IN  IF r = 0 \/ r >= CurveN \/ s = 0 \/ s >= CurveN
                 THEN Panic("Invalid signature")
                 ELSE IF v > 3 THEN Panic("Invalid recovery id")
                 ELSE LET rec == RecoverFromPrehash(Sha3_256(msg), r, s, v)
                      IN  IF ~rec.ok THEN Panic("Recovery failed")
                          ELSE Ok(PointId(rec.point))

----------------------------------------------------------------------------
(***************************************************************************)
(* rpc.rs: the request envelope                                            *)
(***************************************************************************)
\* the RPCMsg of a payload and its signature; a panic inside gen_signature
\* passes through
RPCMsgOf(payloadtype, payload_base64, sig) ==
    IF sig.tag # "ok" THEN sig
    ELSE Ok([payload |-> payload_base64,
             payloadtype |-> payloadtype,
             signature |-> sig.val])

\* compose_rpcmsg signing the JSON text instead of its base64 text
compose_rpcmsg_SignsJson(payloadtype, payload, key) ==
    RPCMsgOf(payloadtype, Base64Encode(payload), gen_signature(payload, key))

compose_rpcmsg(payloadtype, payload, key) ==
    LET payload_base64 == Base64Encode(payload)
    IN  RPCMsgOf(payloadtype, payload_base64, gen_signature(payload_base64, key))

----------------------------------------------------------------------------
(***************************************************************************)
(* serde_json on text.  A JSON value is a tree: a string, a number, a      *)
(* boolean, an array, or an object, which is a sequence of members in the  *)
(* order of the text.  to_string writes the compact text, from_str reads   *)
(* it; a string escapes the quote and the backslash.                       *)
(***************************************************************************)
TStr(s) == [k |-> "str", s |-> s]
TNum(n) == [k |-> "num", n |-> n]
TBool(b) == [k |-> "bool", b |-> b]
TArr(items) == [k |-> "arr", items |-> items]
TObj(members) == [k |-> "obj", members |-> members]

\* str::as_bytes of the names and type tags the messages are made of
Utf8(s) ==
    CASE s = "signature" -> <<115, 105, 103, 110, 97, 116, 117, 114, 101>>
      [] s = "payloadtype" -> <<112, 97, 121, 108, 111, 97, 100, 116, 121, 112, 101>>
      [] s = "payload" -> <<112, 97, 121, 108, 111, 97, 100>>
      [] s = "msgtype" -> <<109, 115, 103, 116, 121, 112, 101>>
      [] s = "colony" -> <<99, 111, 108, 111, 110, 121>>
      [] s = "colonyid" -> <<99, 111, 108, 111, 110, 121, 105, 100>>
      [] s = "name" -> <<110, 97, 109, 101>>
      [] s = "executor" -> <<101, 120, 101, 99, 117, 116, 111, 114>>
      [] s = "executorname" -> <<101, 120, 101, 99, 117, 116, 111, 114, 110, 97, 109, 101>>
      [] s = "colonyname" -> <<99, 111, 108, 111, 110, 121, 110, 97, 109, 101>>
      [] s = "state" -> <<115, 116, 97, 116, 101>>
      [] s = "requirefuncreg" -> <<114, 101, 113, 117, 105, 114, 101, 102, 117, 110, 99, 114, 101, 103>>
      [] s = "locationname" -> <<108, 111, 99, 97, 116, 105, 111, 110, 110, 97, 109, 101>>
      [] s = "timeout" -> <<116, 105, 109, 101, 111, 117, 116>>
      [] s = "processid" -> <<112, 114, 111, 99, 101, 115, 115, 105, 100>>
      [] s = "sequence" -> <<115, 101, 113, 117, 101, 110, 99, 101>>
      [] s = "inreplyto" -> <<105, 110, 114, 101, 112, 108, 121, 116, 111>>
      [] s = "afterseq" -> <<97, 102, 116, 101, 114, 115, 101, 113>>
      [] s = "addcolonymsg" -> <<97, 100, 100, 99, 111, 108, 111, 110, 121, 109, 115, 103>>
      [] s = "addexecutormsg" -> <<97, 100, 100, 101, 120, 101, 99, 117, 116, 111, 114, 109, 115, 103>>
      [] s = "assignprocessmsg" -> <<97, 115, 115, 105, 103, 110, 112, 114, 111, 99, 101, 115, 115, 109, 115, 103>>
      [] s = "getcoloniesmsg" -> <<103, 101, 116, 99, 111, 108, 111, 110, 105, 101, 115, 109, 115, 103>>
      [] s = "channelappendmsg" -> <<99, 104, 97, 110, 110, 101, 108, 97, 112, 112, 101, 110, 100, 109, 115, 103>>
      [] s = "subscribechannelmsg" -> <<115, 117, 98, 115, 99, 114, 105, 98, 101, 99, 104, 97, 110, 110, 101, 108, 109, 115, 103>>
      [] s = "end" -> <<101, 110, 100>>

\* seqs joined with sep between them
RECURSIVE Join(_, _)
Join(seqs, sep) ==
    IF seqs = <<>> THEN <<>>
    ELSE IF Len(seqs) = 1 THEN seqs[1]
    ELSE seqs[1] \o sep \o Join(Tail(seqs), sep)

\* the decimal digits of a natural number
RECURSIVE Digits(_)
Digits(n) == IF n < 10 THEN <<48 + n>> ELSE Digits(n \div 10) \o <<48 + (n % 10)>>

NumText(n) == IF n < 0 THEN <<45>> \o Digits(0 - n) ELSE Digits(n)

\* a string between quotes, with \" for the quote and \\ for the backslash
QuotedText(s) ==
    <<34>> \o Concat([i \in 1..Len(s) |->
                        IF s[i] \in {34, 92} THEN <<92, s[i]>> ELSE <<s[i]>>])
           \o <<34>>

\* serde_json::to_string of a JSON value
RECURSIVE JsonWrite(_)
JsonWrite(doc) ==
    CASE doc.k = "str" -> QuotedText(doc.s)
      [] doc.k = "num" -> NumText(doc.n)
      [] doc.k = "bool" -> IF doc.b THEN <<116, 114, 117, 101>>
                                    ELSE <<102, 97, 108, 115, 101>>
      [] doc.k = "arr" ->
            <<91>> \o Join([i \in 1..Len(doc.items) |-> JsonWrite(doc.items[i])], <<44>>)
                   \o <<93>>
      [] doc.k = "obj" ->
            <<123>> \o Join([i \in 1..Len(doc.members) |->
                               QuotedText(doc.members[i].key) \o <<58>>
                                   \o JsonWrite(doc.members[i].val)], <<44>>)
                    \o <<125>>

\* reading s from position i; the answer says where the reading stopped
JsonFail == [ok |-> FALSE]
JsonRead(doc, next) == [ok |-> TRUE, doc |-> doc, next |-> next]
At(s, i, c) == i <= Len(s) /\ s[i] = c

\* how many backslashes stand directly before position p, not going back
\* beyond position i
BackslashRun(s, i, p) ==
    LET stops == {q \in (i - 1)..(p - 1) : q = i - 1 \/ s[q] # 92}
        stop == CHOOSE q \in stops : \A r \in stops : r <= q
    IN  p - 1 - stop

\* the rest of a string whose opening quote has been read: it runs up to
\* the first quote that no backslash escapes; a backslash escapes the
\* character after it, which is a quote or a backslash
JsonParseString(s, i) ==
    LET Escaped(p) == BackslashRun(s, i, p) % 2 = 1
        ends == {p \in i..Len(s) : s[p] = 34 /\ ~Escaped(p)}
    IN  IF ends = {} THEN JsonFail
        ELSE LET end == CHOOSE p \in ends : \A r \in ends : p <= r
                 kept == {p \in i..(end - 1) : s[p] # 92 \/ Escaped(p)}
                 Nth(n) == CHOOSE p \in kept : Cardinality({q \in kept : q < p}) = n - 1
             IN  IF \E p \in i..(end - 1) : Escaped(p) /\ s[p] \notin {34, 92}
                 THEN JsonFail
                 ELSE JsonRead(TStr([n \in 1..Cardinality(kept) |-> s[Nth(n)]]), end + 1)

\* the digits of a number from position i on
RECURSIVE JsonParseDigits(_, _, _)
JsonParseDigits(s, i, acc) ==
    IF i <= Len(s) /\ s[i] >= 48 /\ s[i] <= 57
    THEN JsonParseDigits(s, i + 1, acc * 10 + (s[i] - 48))
    ELSE JsonRead(TNum(acc), i)

JsonParseNumber(s, i) ==
    IF At(s, i, 45)
    THEN IF i + 1 <= Len(s) /\ s[i + 1] >= 48 /\ s[i + 1] <= 57
         THEN LET r == JsonParseDigits(s, i + 1, 0)
              IN  JsonRead(TNum(0 - r.doc.n), r.next)
         ELSE JsonFail
    ELSE JsonParseDigits(s, i, 0)

RECURSIVE JsonParseValue(_, _), JsonParseItems(_, _, _), JsonAfterItem(_, _, _),
          JsonParseMembers(_, _, _), JsonAfterKey(_, _, _), JsonAfterMember(_, _, _, _)
JsonParseValue(s, i) ==
    IF i > Len(s) THEN JsonFail
    ELSE IF s[i] = 34 THEN JsonParseString(s, i + 1)
    ELSE IF s[i] = 45 \/ (s[i] >= 48 /\ s[i] <= 57) THEN JsonParseNumber(s, i)
    ELSE IF s[i] = 116
    THEN IF i + 3 <= Len(s) /\ SubSeq(s, i, i + 3) = <<116, 114, 117, 101>>
         THEN JsonRead(TBool(TRUE), i + 4) ELSE JsonFail
    ELSE IF s[i] = 102
    THEN IF i + 4 <= Len(s) /\ SubSeq(s, i, i + 4) = <<102, 97, 108, 115, 101>>
         THEN JsonRead(TBool(FALSE), i + 5) ELSE JsonFail
    ELSE IF s[i] = 91
    THEN IF At(s, i + 1, 93) THEN JsonRead(TArr(<<>>), i + 2)
         ELSE JsonParseItems(s, i + 1, <<>>)
    ELSE IF s[i] = 123
    THEN IF At(s, i + 1, 125) THEN JsonRead(TObj(<<>>), i + 2)
         ELSE JsonParseMembers(s, i + 1, <<>>)
    ELSE JsonFail

\* the items of an array from position i on, acc holding those before
JsonParseItems(s, i, acc) == JsonAfterItem(s, acc, JsonParseValue(s, i))

\* an item has been read: a comma and more items, or the closing bracket
JsonAfterItem(s, acc, item) ==
    IF ~item.ok THEN JsonFail
    ELSE IF At(s, item.next, 44)
    THEN JsonParseItems(s, item.next + 1, Append(acc, item.doc))
    ELSE IF At(s, item.next, 93)
    THEN JsonRead(TArr(Append(acc, item.doc)), item.next + 1)
    ELSE JsonFail

\* the members of an object from position i on, acc holding those before
JsonParseMembers(s, i, acc) ==
    IF ~At(s, i, 34) THEN JsonFail ELSE JsonAfterKey(s, acc, JsonParseString(s, i + 1))

\* a key has been read: a colon and the value
JsonAfterKey(s, acc, key) ==
    IF ~key.ok \/ ~At(s, key.next, 58) THEN JsonFail
    ELSE JsonAfterMember(s, acc, key.doc.s, JsonParseValue(s, key.next + 1))

\* a member has been read: a comma and more members, or the closing brace
JsonAfterMember(s, acc, key, val) ==
    IF ~val.ok THEN JsonFail
    ELSE IF At(s, val.next, 44)
    THEN JsonParseMembers(s, val.next + 1, Append(acc, [key |-> key, val |-> val.doc]))
    ELSE IF At(s, val.next, 125)
    THEN JsonRead(TObj(Append(acc, [key |-> key, val |-> val.doc])), val.next + 1)
    ELSE JsonFail

\* serde_json::from_str to a JSON value: one value and nothing after it
JsonWhole(s, r) ==
    IF r.ok /\ r.next = Len(s) + 1 THEN [ok |-> TRUE, doc |-> r.doc] ELSE [ok |-> FALSE]

JsonParse(s) == JsonWhole(s, JsonParseValue(s, 1))

----------------------------------------------------------------------------
(***************************************************************************)
(* serde on the message structs.  A struct is a record; its schema lists   *)
(* the fields in the order of the declaration, with the JSON type, the     *)
(* skip_serializing_if rule and whether #[serde(default)] fills the field  *)
(* in when the JSON has no member of that name.  Executor is modelled with *)
(* five of its fields, one for each rule it uses.                          *)
(***************************************************************************)
Fld(key, ty, skip, dflt) == [key |-> key, ty |-> ty, skip |-> skip, dflt |-> dflt]

Schema(ty) ==
    CASE ty = "RPCMsg" ->
            <<Fld("signature", "str", "never", FALSE),
              Fld("payloadtype", "str", "never", FALSE),
              Fld("payload", "str", "never", FALSE)>>
      [] ty = "Colony" ->
            <<Fld("colonyid", "str", "never", FALSE),
              Fld("name", "str", "never", FALSE)>>
      [] ty = "Executor" ->
            <<Fld("executorname", "str", "never", TRUE),
              Fld("colonyname", "str", "never", TRUE),
              Fld("state", "int", "zero", TRUE),
              Fld("requirefuncreg", "bool", "false", TRUE),
              Fld("locationname", "str", "empty", TRUE)>>
      [] ty = "AddColonyRPCMsg" ->
            <<Fld("colony", "Colony", "never", FALSE),
              Fld("msgtype", "str", "never", FALSE)>>
      [] ty = "AddExecutorRPCMsg" ->
            <<Fld("executor", "Executor", "never", FALSE),
              Fld("msgtype", "str", "never", FALSE)>>
      [] ty = "AssignProcessRPCMsg" ->
            <<Fld("colonyname", "str", "never", FALSE),
              Fld("timeout", "int", "never", FALSE),
              Fld("msgtype", "str", "never", FALSE)>>
      [] ty = "GetColoniesRPCMsg" ->
            <<Fld("msgtype", "str", "never", FALSE)>>
      [] ty = "ChannelAppendRPCMsg" ->
            <<Fld("msgtype", "str", "never", FALSE),
              Fld("processid", "str", "never", FALSE),
              Fld("name", "str", "never", FALSE),
              Fld("sequence", "int", "never", FALSE),
              Fld("inreplyto", "int", "never", FALSE),
              Fld("payload", "bytes", "never", FALSE)>>
      [] ty = "SubscribeChannelRPCMsg" ->
            <<Fld("processid", "str", "never", FALSE),
              Fld("name", "str", "never", FALSE),
              Fld("afterseq", "int", "never", FALSE),
              Fld("timeout", "int", "never", FALSE),
              Fld("msgtype", "str", "never", FALSE)>>

\* skip_serializing_if: is_zero_i32, std::ops::Not::not, String::is_empty
Skipped(f, x) ==
    CASE f.skip = "never" -> FALSE
      [] f.skip = "zero" -> x = 0
      [] f.skip = "false" -> ~x
      [] f.skip = "empty" -> Len(x) = 0

\* Default::default() of the plain types
DefaultOf(ty) ==
    CASE ty = "int" -> 0
      [] ty = "bool" -> FALSE
      [] OTHER -> <<>>

\* Serialize: the JSON value of v as a ty
RECURSIVE Serialize(_, _)
Serialize(v, ty) ==
    CASE ty = "str" -> TStr(v)
      [] ty = "int" -> TNum(v)
      [] ty = "bool" -> TBool(v)
      [] ty = "bytes" -> TArr([i \in 1..Len(v) |-> TNum(v[i])])
      [] OTHER ->
            LET kept == SelectSeq(Schema(ty), LAMBDA f : ~Skipped(f, v[f.key]))
            IN  TObj([i \in 1..Len(kept) |->
                        [key |-> Utf8(kept[i].key),
                         val |-> Serialize(v[kept[i].key], kept[i].ty)]])

\* Deserialize: doc read as a ty; members of other names are passed over
RECURSIVE Deserialize(_, _)
Deserialize(doc, ty) ==
    CASE ty = "str" ->
            IF doc.k = "str" THEN [ok |-> TRUE, val |-> doc.s] ELSE [ok |-> FALSE]
      [] ty = "int" ->
            IF doc.k = "num" THEN [ok |-> TRUE, val |-> doc.n] ELSE [ok |-> FALSE]
      [] ty = "bool" ->
            IF doc.k = "bool" THEN [ok |-> TRUE, val |-> doc.b] ELSE [ok |-> FALSE]
      [] ty = "bytes" ->
            IF /\ doc.k = "arr"
               /\ \A i \in 1..Len(doc.items) :
                      doc.items[i].k = "num" /\ doc.items[i].n \in 0..255
            THEN [ok |-> TRUE, val |-> [i \in 1..Len(doc.items) |-> doc.items[i].n]]
            ELSE [ok |-> FALSE]
      [] OTHER ->
            IF doc.k # "obj" THEN [ok |-> FALSE]
            ELSE LET fs == Schema(ty)
                     At1(f) == {i \in 1..Len(doc.members) : doc.members[i].key = Utf8(f.key)}
                     Read(f) ==
                         IF At1(f) # {}
                         THEN Deserialize(doc.members[CHOOSE i \in At1(f) : TRUE].val, f.ty)
                         ELSE IF f.dflt THEN [ok |-> TRUE, val |-> DefaultOf(f.ty)]
                         ELSE [ok |-> FALSE]
                     ByKey(key) == fs[CHOOSE i \in 1..Len(fs) : fs[i].key = key]
                 IN  IF \A i \in 1..Len(fs) : Read(fs[i]).ok
                     THEN [ok |-> TRUE,
                           val |-> [key \in {fs[i].key : i \in 1..Len(fs)} |->
                                       Read(ByKey(key)).val]]
                     ELSE [ok |-> FALSE]

\* serde_json::to_string(&v) for a v of struct ty
to_string(v, ty) == JsonWrite(Serialize(v, ty))

(***************************************************************************)
(* rpc.rs: the compose functions.  Each builds its message struct with the *)
(* type tag in msgtype, serialises it, has compose_rpcmsg wrap and sign    *)
(* it, and serialises the envelope.  Six of them are modelled: a nested    *)
(* struct, a nested struct with skipped fields, a text and a number, no    *)
(* argument at all, a byte payload, and the subscription message.          *)
(***************************************************************************)
\* serde_json::to_string(&rpcmsg).unwrap() on what compose_rpcmsg returned;
\* a panic inside compose_rpcmsg passes through
RPCMsgText(made) ==
    IF made.tag # "ok" THEN made ELSE Ok(to_string(made.val, "RPCMsg"))

\* the last two lines of every compose function
WireBody(payloadtype, payload, key) ==
    RPCMsgText(compose_rpcmsg(payloadtype, payload, key))

compose_add_colony_rpcmsg(colony, key) ==
    LET payloadtype == Utf8("addcolonymsg")
        add_colony_rpcmsg == [colony |-> colony, msgtype |-> payloadtype]
    IN  WireBody(payloadtype, to_string(add_colony_rpcmsg, "AddColonyRPCMsg"), key)

\* compose_add_executor_rpcmsg putting another tag into msgtype
compose_add_executor_rpcmsg_OtherMsgtype(executor, key) ==
    LET payloadtype == Utf8("addexecutormsg")
        add_executor_rpcmsg == [executor |-> executor, msgtype |-> Utf8("addcolonymsg")]
    IN  WireBody(payloadtype, to_string(add_executor_rpcmsg, "AddExecutorRPCMsg"), key)

compose_add_executor_rpcmsg(executor, key) ==
    LET payloadtype == Utf8("addexecutormsg")
        add_executor_rpcmsg == [executor |-> executor, msgtype |-> payloadtype]
    IN  WireBody(payloadtype, to_string(add_executor_rpcmsg, "AddExecutorRPCMsg"), key)

compose_assign_process_rpcmsg(colonyname, timeout, key) ==
    LET payloadtype == Utf8("assignprocessmsg")
        assign_process_rpcmsg ==
            [colonyname |-> colonyname, timeout |-> timeout, msgtype |-> payloadtype]
    IN  WireBody(payloadtype, to_string(assign_process_rpcmsg, "AssignProcessRPCMsg"),
                 key)

compose_get_colonies_rpcmsg(key) ==
    LET payloadtype == Utf8("getcoloniesmsg")
        msg == [msgtype |-> payloadtype]
    IN  WireBody(payloadtype, to_string(msg, "GetColoniesRPCMsg"), key)

\* _data_type is not used
compose_channel_append_rpcmsg(processid, channelname, sequence, data, data_type, inreplyto, key) ==
    LET payloadtype == Utf8("channelappendmsg")
        msg == [msgtype |-> payloadtype, processid |-> processid, name |-> channelname,
                sequence |-> sequence, inreplyto |-> inreplyto, payload |-> data]
    IN  WireBody(payloadtype, to_string(msg, "ChannelAppendRPCMsg"), key)

compose_subscribe_channel_rpcmsg(processid, channelname, afterseq, timeout, key) ==
    LET payloadtype == Utf8("subscribechannelmsg")
        msg == [processid |-> processid, name |-> channelname, afterseq |-> afterseq,
                timeout |-> timeout, msgtype |-> payloadtype]
    IN  WireBody(payloadtype, to_string(msg, "SubscribeChannelRPCMsg"), key)

\* the message struct each compose function serialises
MsgStruct(fn) ==
    CASE fn = "compose_add_colony_rpcmsg" -> "AddColonyRPCMsg"
      [] fn = "compose_add_executor_rpcmsg" -> "AddExecutorRPCMsg"
      [] fn = "compose_assign_process_rpcmsg" -> "AssignProcessRPCMsg"
      [] fn = "compose_get_colonies_rpcmsg" -> "GetColoniesRPCMsg"
      [] fn = "compose_channel_append_rpcmsg" -> "ChannelAppendRPCMsg"
      [] fn = "compose_subscribe_channel_rpcmsg" -> "SubscribeChannelRPCMsg"

\* the call c made with key
Compose(c, key) ==
    CASE c.fn = "compose_add_colony_rpcmsg" -> compose_add_colony_rpcmsg(c.colony, key)
      [] c.fn = "compose_add_executor_rpcmsg" ->
            compose_add_executor_rpcmsg(c.executor, key)
      [] c.fn = "compose_assign_process_rpcmsg" ->
            compose_assign_process_rpcmsg(c.colonyname, c.timeout, key)
      [] c.fn = "compose_get_colonies_rpcmsg" -> compose_get_colonies_rpcmsg(key)
      [] c.fn = "compose_channel_append_rpcmsg" ->
            compose_channel_append_rpcmsg(c.processid, c.channelname, c.sequence, c.data,
                                          c.data_type, c.inreplyto, key)
      [] c.fn = "compose_subscribe_channel_rpcmsg" ->
            compose_subscribe_channel_rpcmsg(c.processid, c.channelname, c.afterseq,
                                             c.timeout, key)

\* What the receiver of a wire body does, step by step: the body is parsed
\* as an RPCMsg, its payload base64-decoded, the text parsed as JSON and the
\* JSON read as the message struct ty.
WireFail == [ok |-> FALSE]

WireMsg(payloadtype, json, msg) ==
    IF ~msg.ok THEN WireFail
    ELSE [ok |-> TRUE, payloadtype |-> payloadtype, json |-> json, msg |-> msg.val]

WireJson(payloadtype, inner, ty) ==
    IF ~inner.ok THEN WireFail
    ELSE WireMsg(payloadtype, inner.doc, Deserialize(inner.doc, ty))

WirePayload(payloadtype, raw, ty) ==
    IF ~raw.ok THEN WireFail ELSE WireJson(payloadtype, JsonParse(raw.bytes), ty)

WireRPCMsg(env, ty) ==
    IF ~env.ok THEN WireFail
    ELSE WirePayload(env.val.payloadtype, Base64Decode(env.val.payload), ty)

WireEnvelope(outer, ty) ==
    IF ~outer.ok THEN WireFail ELSE WireRPCMsg(Deserialize(outer.doc, "RPCMsg"), ty)

DecodeWire(body, ty) == WireEnvelope(JsonParse(body), ty)

\* the texts handed over as names, ids and data: "c", and a quote with a
\* backslash
NameTexts == {<<99>>, <<34, 92>>}

\* the calls made
ComposeCalls ==
    {[fn |-> "compose_add_colony_rpcmsg", colony |-> [colonyid |-> i, name |-> n]] :
        i \in NameTexts, n \in NameTexts}
    \cup {[fn |-> "compose_add_executor_rpcmsg",
           executor |-> [executorname |-> n, colonyname |-> <<99>>, state |-> s,
                         requirefuncreg |-> r, locationname |-> l]] :
             n \in NameTexts, s \in {0, 1}, r \in BOOLEAN, l \in {<<>>, <<99>>}}
    \cup {[fn |-> "compose_assign_process_rpcmsg", colonyname |-> n, timeout |-> x] :
             n \in NameTexts, x \in {0 - 1, 0, 10}}
    \cup {[fn |-> "compose_get_colonies_rpcmsg"]}
    \cup {[fn |-> "compose_channel_append_rpcmsg", processid |-> <<99>>,
           channelname |-> n, sequence |-> s, data |-> d, data_type |-> dt,
           inreplyto |-> 0] :
             n \in NameTexts, s \in {0, 1}, d \in NameTexts \cup {<<>>},
             dt \in {<<>>, Utf8("end")}}
    \cup {[fn |-> "compose_subscribe_channel_rpcmsg", processid |-> <<99>>,
           channelname |-> n, afterseq |-> a, timeout |-> x] :
             n \in NameTexts, a \in {0, 10}, x \in {0, 10}}

\* the keys the requests are signed with
ComposeKeys == {HexEncode(<<1>>), HexEncode(<<CurveN - 1>>)}

ComposeInit ==
    /\ composeCall \in ComposeCalls
    /\ composeKey \in ComposeKeys
    /\ wire = None
    /\ decoded = None

\* the compose function runs
ComposeRequest ==
    /\ wire = None
    /\ wire' = Compose(composeCall, composeKey)
    /\ UNCHANGED <<pairVars, deadlineVars, keyVars, reqVars, composeCall, composeKey, decoded, urlVars, cryptoVars, rpcVars, wsVars>>

\* the receiver decodes the wire body
DecodeRequest ==
    /\ wire.tag = "ok"
    /\ decoded = None
    /\ decoded' = DecodeWire(wire.val, MsgStruct(composeCall.fn))
    /\ UNCHANGED <<pairVars, deadlineVars, keyVars, reqVars, composeCall, composeKey, wire, urlVars, cryptoVars, rpcVars, wsVars>>

ComposeNext == ComposeRequest \/ DecodeRequest

----------------------------------------------------------------------------
(***************************************************************************)
(* The signature engine exercised by one caller: a key and a text are      *)
(* chosen, then the caller derives the identity, signs, recovers, composes *)
(* an envelope and recovers the signer of the envelope, in any order the   *)
(* data allows.                                                            *)
(***************************************************************************)
MsgAlphabet == {97, 123}

Texts(len) == UNION {[1..k -> MsgAlphabet] : k \in 0..len}

\* texts that are no hex (a character that is no digit, an odd length) and
\* the hex text of two bytes where the key is one byte wide
BadHexTexts == {<<122, 122>>, <<48>>}
WrongWidthKey == HexEncode(<<1, 1>>)

KeyTexts == {HexEncode(<<d>>) : d \in 0..MaxKeyByte} \cup BadHexTexts \cup {WrongWidthKey}

\* signature texts that gen_signature did not make: r zero, with no point of
\* that x, with a point, with a point for either x, beyond the field when
\* raised by n, and out of range; s zero, in range and out of range; every
\* recovery byte up to the first invalid one; texts that are no hex and
\* texts of the wrong width
ForeignR == {0, 1, 2, 7, 13, CurveN}
ForeignS == {0, 1, CurveN}
ForeignSigs ==
    {HexEncode(<<r, s, v>>) : r \in ForeignR, s \in ForeignS, v \in 0..4}
    \cup BadHexTexts \cup {HexEncode(<<2, 1>>), HexEncode(<<2, 1, 0, 0>>)}

CryptoInit ==
    /\ prvkey \in KeyTexts
    /\ message \in Texts(MaxMsgLen)
    /\ id = None
    /\ signature = None
    /\ recovered = None
    /\ rpcmsg = None
    /\ envRecovered = None
    /\ foreign = None
    /\ tampered = None

GenId ==
    /\ id = None
    /\ id' = gen_id(prvkey)
    /\ UNCHANGED <<pairVars, deadlineVars, keyVars, reqVars, composeVars, urlVars, rpcVars, wsVars, foreign, tampered, prvkey, message, signature, recovered, rpcmsg, envRecovered>>

GenSignature ==
    /\ signature = None
    /\ signature' = gen_signature(message, prvkey)
    /\ UNCHANGED <<pairVars, deadlineVars, keyVars, reqVars, composeVars, urlVars, rpcVars, wsVars, foreign, tampered, prvkey, message, id, recovered, rpcmsg, envRecovered>>

Recid ==
    /\ signature.tag = "ok"
    /\ recovered = None
    /\ recovered' = recid(message, signature.val)
    /\ UNCHANGED <<pairVars, deadlineVars, keyVars, reqVars, composeVars, urlVars, rpcVars, wsVars, foreign, tampered, prvkey, message, id, signature, rpcmsg, envRecovered>>

ComposeRpcmsg ==
    /\ rpcmsg = None
    /\ rpcmsg' = compose_rpcmsg(<<116>>, message, prvkey)
    /\ UNCHANGED <<pairVars, deadlineVars, keyVars, reqVars, composeVars, urlVars, rpcVars, wsVars, foreign, tampered, prvkey, message, id, signature, recovered, envRecovered>>

RecidEnvelope ==
    /\ rpcmsg.tag = "ok"
    /\ envRecovered = None
    /\ envRecovered' = recid(rpcmsg.val.payload, rpcmsg.val.signature)
    /\ UNCHANGED <<pairVars, deadlineVars, keyVars, reqVars, composeVars, urlVars, rpcVars, wsVars, foreign, tampered, prvkey, message, id, signature, recovered, rpcmsg>>

\* the caller has been through its own key and text
CallerDone ==
    /\ id # None /\ signature # None /\ rpcmsg # None
    /\ signature.tag = "ok" => recovered # None
    /\ rpcmsg.tag = "ok" => envRecovered # None

\* recid called with a signature text that did not come from gen_signature
RecidForeign ==
    /\ CallerDone
    /\ foreign = None /\ tampered = None
    /\ \E sig \in ForeignSigs :
          foreign' = [sig |-> sig, result |-> recid(message, sig)]
    /\ UNCHANGED <<pairVars, deadlineVars, keyVars, reqVars, composeVars, urlVars, rpcVars, wsVars, tampered, prvkey, message, id, signature, recovered,
                   rpcmsg, envRecovered>>

\* the characters put in the place of one character of a payload text:
\* A, B, h, /, = and !
TamperChars == {65, 66, 104, 47, 61, 33}

\* the receiver's recid on the envelope after one character of its payload
\* text has been replaced, the signature left as it was
RecidTampered ==
    /\ CallerDone
    /\ rpcmsg.tag = "ok"
    /\ foreign = None /\ tampered = None
    /\ \E i \in 1..Len(rpcmsg.val.payload), c \in TamperChars :
          /\ c # rpcmsg.val.payload[i]
          /\ tampered' =
                 [at |-> i,
                  payload |-> [rpcmsg.val.payload EXCEPT ![i] = c],
                  result |-> recid([rpcmsg.val.payload EXCEPT ![i] = c],
                                   rpcmsg.val.signature)]
    /\ UNCHANGED <<pairVars, deadlineVars, keyVars, reqVars, composeVars, urlVars, rpcVars, wsVars, foreign, prvkey, message, id, signature, recovered,
                   rpcmsg, envRecovered>>

CryptoNext ==
    \/ GenId \/ GenSignature \/ Recid \/ ComposeRpcmsg \/ RecidEnvelope
    \/ RecidForeign \/ RecidTampered

(***************************************************************************)
(* crypto.rs: gen_prvkey and gen_hash, and gen_id and gen_signature called *)
(* a second time with the arguments of the first call.  OsRng is the       *)
(* stream of byte strings it gives next; a scalar and a digest are         *)
(* ScalarWidth and DigestWidth bytes wide (32 in k256 and SHA3-256).       *)
(***************************************************************************)
ScalarWidth == 1
DigestWidth == 1

\* byte strings OsRng gives: zero is no private key
RngDraws == {0, 7}
MaxRngDraws == 2
RngStreams == [1..MaxRngDraws -> RngDraws]

\* SigningKey::random draws until the bytes are a nonzero scalar below the
\* group order; hex::encode(signing_key.to_bytes())
gen_prvkey(rng) ==
    LET valid == {i \in 1..Len(rng) : SigningKeyFromSlice(<<rng[i]>>).ok}
        first == CHOOSE i \in valid : \A j \in valid : i <= j
    IN  HexEncode(<<rng[first]>>)

KeysInit ==
    /\ osRng \in RngStreams
    /\ newKey = None /\ hashOut = None /\ idAgain = None /\ sigAgain = None

\* gen_prvkey(): the generator has moved on when it returns
GenPrvkey ==
    /\ newKey = None
    /\ \E i \in 1..Len(osRng) : SigningKeyFromSlice(<<osRng[i]>>).ok
    /\ newKey' = Some(gen_prvkey(osRng))
    /\ osRng' \in RngStreams
    /\ UNCHANGED <<pairVars, deadlineVars, reqVars, composeVars, urlVars, cryptoVars, rpcVars, wsVars,
                   hashOut, idAgain, sigAgain>>

\* some other user of OsRng draws from it
OsRngOther ==
    /\ osRng' \in RngStreams \ {osRng}
    /\ UNCHANGED <<pairVars, deadlineVars, reqVars, composeVars, urlVars, cryptoVars, rpcVars, wsVars,
                   newKey, hashOut, idAgain, sigAgain>>

GenHash ==
    /\ hashOut = None
    /\ hashOut' = Some(gen_hash(message))
    /\ UNCHANGED <<pairVars, deadlineVars, reqVars, composeVars, urlVars, cryptoVars, rpcVars, wsVars,
                   osRng, newKey, idAgain, sigAgain>>

\* gen_id(prvkey) once more
GenIdAgain ==
    /\ id # None /\ idAgain = None
    /\ idAgain' = gen_id(prvkey)
    /\ UNCHANGED <<pairVars, deadlineVars, reqVars, composeVars, urlVars, cryptoVars, rpcVars, wsVars,
                   osRng, newKey, hashOut, sigAgain>>

\* gen_signature(message, prvkey) once more
GenSignatureAgain ==
    /\ signature # None /\ sigAgain = None
    /\ sigAgain' = gen_signature(message, prvkey)
    /\ UNCHANGED <<pairVars, deadlineVars, reqVars, composeVars, urlVars, cryptoVars, rpcVars, wsVars,
                   osRng, newKey, hashOut, idAgain>>

KeysNext ==
    \/ GenPrvkey \/ OsRngOther \/ GenHash
    \/ GenId \/ GenIdAgain \/ GenSignature \/ GenSignatureAgain

----------------------------------------------------------------------------
(***************************************************************************)
(* JSON documents and the typed decoding serde_json::from_str does.  A     *)
(* document is a tagged value; "invalid" is a text that is no JSON at all. *)
(***************************************************************************)
JNull == [kind |-> "null"]
JInvalid == [kind |-> "invalid"]
JNum(n) == [kind |-> "num", n |-> n]
JStr(t) == [kind |-> "str", s |-> t]
JArr(items) == [kind |-> "arr", items |-> items]
JObj(fields) == [kind |-> "obj", fields |-> fields]

HasField(doc, name, kind) ==
    name \in DOMAIN doc.fields /\ doc.fields[name].kind = kind

\* core::Failure { status: i32, message: String }: both fields are required
ParseFailure(doc) ==
    IF doc.kind = "obj" /\ HasField(doc, "status", "num") /\ HasField(doc, "message", "str")
    THEN [ok |-> TRUE,
          val |-> [status |-> doc.fields.status.n, message |-> doc.fields.message.s]]
    ELSE [ok |-> FALSE]

\* core::Colony { colonyid: String, name: String }: both fields are required
ParseColony(doc) ==
    IF doc.kind = "obj" /\ HasField(doc, "colonyid", "str") /\ HasField(doc, "name", "str")
    THEN [ok |-> TRUE,
          val |-> [colonyid |-> doc.fields.colonyid.s, name |-> doc.fields.name.s]]
    ELSE [ok |-> FALSE]

\* ChannelEntry::default()
DefaultChannelEntry == [sequence |-> 0, payload |-> ""]

\* core::ChannelEntry: every field has #[serde(default)], so an object may
\* leave any field out (and, a derived struct reading a sequence by position,
\* so may the empty array); a field that is present must have its type
\* (payload may also be null).  The entry is modelled by sequence and payload.
ParseChannelEntry(doc) ==
    IF doc.kind = "arr" /\ doc.items = <<>> THEN [ok |-> TRUE, val |-> DefaultChannelEntry]
    ELSE IF doc.kind # "obj" THEN [ok |-> FALSE]
    ELSE IF "sequence" \in DOMAIN doc.fields /\ doc.fields.sequence.kind # "num"
    THEN [ok |-> FALSE]
    ELSE IF "payload" \in DOMAIN doc.fields /\ doc.fields.payload.kind \notin {"str", "null"}
    THEN [ok |-> FALSE]
    ELSE [ok |-> TRUE,
          val |-> [sequence |-> IF "sequence" \in DOMAIN doc.fields
                                THEN doc.fields.sequence.n ELSE 0,
                   payload |-> IF HasField(doc, "payload", "str")
                               THEN doc.fields.payload.s ELSE ""]]

\* Vec<Colony>: an array whose every item decodes as a Colony
ParseColonies(doc) ==
    IF doc.kind = "arr" /\ \A i \in 1..Len(doc.items) : ParseColony(doc.items[i]).ok
    THEN [ok |-> TRUE, val |-> [i \in 1..Len(doc.items) |-> ParseColony(doc.items[i]).val]]
    ELSE [ok |-> FALSE]

\* Vec<ChannelEntry>: an array whose every item decodes as a ChannelEntry
ParseChannelEntries(doc) ==
    IF doc.kind = "arr" /\ \A i \in 1..Len(doc.items) : ParseChannelEntry(doc.items[i]).ok
    THEN [ok |-> TRUE,
          val |-> [i \in 1..Len(doc.items) |-> ParseChannelEntry(doc.items[i]).val]]
    ELSE [ok |-> FALSE]

(***************************************************************************)
(* What the server can put on the wire.  A reply payload is a text that is *)
(* no base64, the base64 of bytes that are no UTF-8, or the base64 of a    *)
(* text; a body (or a text frame) is a text that is no RPCReplyMsg, or an  *)
(* RPCReplyMsg { payloadtype, payload, error }.                            *)
(***************************************************************************)
NotBase64 == [enc |-> "notbase64"]
Base64OfNonUtf8 == [enc |-> "base64", utf8 |-> FALSE]
Base64Of(doc) == [enc |-> "base64", utf8 |-> TRUE, doc |-> doc]

\* BASE64.decode(payload) followed by String::from_utf8
DecodePayload(payload) ==
    IF payload.enc # "base64" THEN [ok |-> FALSE, why |-> "base64"]
    ELSE IF ~payload.utf8 THEN [ok |-> FALSE, why |-> "utf8"]
    ELSE [ok |-> TRUE, text |-> payload.doc]

NotAReply == [kind |-> "garbage"]
Reply(payload, error) == [kind |-> "reply", payload |-> payload, error |-> error]

FailureDoc == JObj([status |-> JNum(400), message |-> JStr("bad request")])
ColonyDoc == JObj([colonyid |-> JStr("c1"), name |-> JStr("dev")])
EntryDoc(n) == JObj([sequence |-> JNum(n), payload |-> JStr("aGk=")])
Batch1Doc == JArr(<<EntryDoc(1)>>)
Batch2Doc == JArr(<<EntryDoc(2), EntryDoc(3)>>)

Docs == {FailureDoc, ColonyDoc, EntryDoc(1), JArr(<<ColonyDoc>>), Batch1Doc,
         JArr(<<>>), JNull, JInvalid}

Payloads == {NotBase64, Base64OfNonUtf8} \cup {Base64Of(d) : d \in Docs}

Bodies == {NotAReply} \cup {Reply(pl, e) : pl \in Payloads, e \in BOOLEAN}

\* HTTP statuses the server answers with: 204 is a success status other than 200
Statuses == {200, 204, 400}

TransportError == [kind |-> "transport_error"]

Responses ==
    {TransportError}
    \cup {[kind |-> "response", status |-> st, bodyRead |-> TRUE, body |-> b] :
             st \in Statuses, b \in Bodies}
    \cup {[kind |-> "response", status |-> st, bodyRead |-> FALSE, body |-> NotAReply] :
             st \in Statuses}

(***************************************************************************)
(* rpc.rs: send_rpcmsg, as a function of what came back for the POST       *)
(***************************************************************************)
\* send_rpcmsg reporting a failed read of the body as a connection error
send_rpcmsg_BodyErrAsConn(r) ==
    IF r.kind = "transport_error" THEN RPCError("transport error", TRUE)
    ELSE IF ~r.bodyRead THEN RPCError("body error", TRUE)
    ELSE IF r.body.kind # "reply" THEN RPCError("Failed to parse response", FALSE)
    ELSE LET dec == DecodePayload(r.body.payload)
         IN  IF ~dec.ok /\ dec.why = "base64" THEN RPCError("Failed to decode payload", FALSE)
             ELSE IF ~dec.ok THEN RPCError("Invalid UTF-8 in payload", FALSE)
             ELSE IF r.status # 200
             THEN LET failure == ParseFailure(dec.text)
                  IN  IF ~failure.ok THEN RPCError("Failed to parse error", FALSE)
                      ELSE RPCError(failure.val.message, FALSE)
             ELSE Ok(dec.text)

send_rpcmsg(r) ==
    IF r.kind = "transport_error" THEN RPCError("transport error", TRUE)
    ELSE IF ~r.bodyRead THEN RPCError("body error", FALSE)
    ELSE IF r.body.kind # "reply" THEN RPCError("Failed to parse response", FALSE)
    ELSE LET dec == DecodePayload(r.body.payload)
         IN  IF ~dec.ok /\ dec.why = "base64" THEN RPCError("Failed to decode payload", FALSE)
             ELSE IF ~dec.ok THEN RPCError("Invalid UTF-8 in payload", FALSE)
             ELSE IF r.status # 200
             THEN LET failure == ParseFailure(dec.text)
                  IN  IF ~failure.ok THEN RPCError("Failed to parse error", FALSE)
                      ELSE RPCError(failure.val.message, FALSE)
             ELSE Ok(dec.text)

(***************************************************************************)
(* lib.rs: the public operations, as functions of what send_rpcmsg         *)
(* returned.  `?` hands an error on; unwrap() of a failed decode panics;   *)
(* unwrap_or_default() replaces a failed decode by the default value.      *)
(***************************************************************************)
add_colony(reply) ==
    IF reply.tag # "ok" THEN reply
    ELSE LET colony == ParseColony(reply.val)
         IN  IF colony.ok THEN Ok(colony.val) ELSE Panic("unwrap on Err")

remove_colony(reply) ==
    IF reply.tag # "ok" THEN reply ELSE Ok("unit")

get_colonies(reply) ==
    IF reply.tag # "ok" THEN reply
    ELSE LET colonies == ParseColonies(reply.val)
         IN  IF colonies.ok THEN Ok(colonies.val) ELSE Ok(<<>>)

channel_append(reply) ==
    IF reply.tag # "ok" THEN reply
    ELSE LET entry == ParseChannelEntry(reply.val)
         IN  IF entry.ok THEN Ok(entry.val) ELSE Ok(DefaultChannelEntry)

Ops == {"add_colony", "remove_colony", "get_colonies", "channel_append"}

OpResult(o, reply) ==
    CASE o = "add_colony" -> add_colony(reply)
      [] o = "remove_colony" -> remove_colony(reply)
      [] o = "get_colonies" -> get_colonies(reply)
      [] o = "channel_append" -> channel_append(reply)

\* whether the document decodes as the type operation o expects
Decodable(o, doc) ==
    CASE o = "add_colony" -> ParseColony(doc).ok
      [] o = "remove_colony" -> TRUE
      [] o = "get_colonies" -> ParseColonies(doc).ok
      [] o = "channel_append" -> ParseChannelEntry(doc).ok

RpcInit ==
    /\ op \in Ops
    /\ rpcPc = "start"
    /\ resp = None
    /\ sendResult = None
    /\ opResult = None
    /\ posts = 0

\* the operation composes its envelope and send_rpcmsg issues the POST
RpcPost ==
    /\ rpcPc = "start"
    /\ rpcPc' = "awaiting"
    /\ posts' = posts + 1
    /\ UNCHANGED <<pairVars, deadlineVars, keyVars, reqVars, composeVars, urlVars, cryptoVars, wsVars, op, resp, sendResult, opResult>>

\* the POST that failed in the transport issued once more
RpcTransportError_Retries ==
    /\ rpcPc = "awaiting"
    /\ posts < 2
    /\ rpcPc' = "start"
    /\ UNCHANGED <<pairVars, deadlineVars, keyVars, reqVars, composeVars, urlVars, cryptoVars, wsVars, op, resp, sendResult, opResult, posts>>

\* the POST fails in the transport: no response
RpcTransportError ==
    /\ rpcPc = "awaiting"
    /\ resp' = TransportError
    /\ sendResult' = send_rpcmsg(resp')
    /\ opResult' = OpResult(op, sendResult')
    /\ rpcPc' = "done"
    /\ UNCHANGED <<pairVars, deadlineVars, keyVars, reqVars, composeVars, urlVars, cryptoVars, wsVars, op, posts>>

\* a response arrives; send_rpcmsg and the operation run to their return
RpcResponse ==
    /\ rpcPc = "awaiting"
    /\ \E r \in Responses \ {TransportError} :
          /\ resp' = r
          /\ sendResult' = send_rpcmsg(r)
          /\ opResult' = OpResult(op, sendResult')
    /\ rpcPc' = "done"
    /\ UNCHANGED <<pairVars, deadlineVars, keyVars, reqVars, composeVars, urlVars, cryptoVars, wsVars, op, posts>>

RpcNext == RpcPost \/ RpcTransportError \/ RpcResponse

----------------------------------------------------------------------------
(***************************************************************************)
(* rpc.rs: the WebSocket subscriptions.  The server side of the socket is  *)
(* a stream of items: text frames (a text that is no RPCReplyMsg, or an    *)
(* RPCReplyMsg), close frames, binary/ping/pong frames, a transport error  *)
(* (Some(Err(e))) and the end of the stream (None).                        *)
(***************************************************************************)
TextFrame(body) == [type |-> "text", body |-> body]
CloseFrame == [type |-> "close"]
WsError == [type |-> "wserror"]
EndOfStream == [type |-> "eof"]
NoItem == [type |-> "none"]
NonTextTypes == {"binary", "ping", "pong"}

\* the frames the server sends: an error reply with a Failure or with a
\* payload that is no base64; a data reply with a batch, with the empty
\* batch, with a document that is no array, or with a payload that is no
\* base64; and a text that is no reply at all
StreamItems ==
    {TextFrame(NotAReply)}
    \cup {TextFrame(Reply(pl, TRUE)) : pl \in {Base64Of(FailureDoc), NotBase64}}
    \cup {TextFrame(Reply(pl, FALSE)) :
             pl \in {Base64Of(Batch1Doc), Base64Of(Batch2Doc), Base64Of(JArr(<<>>)),
                     Base64Of(JNull), NotBase64}}
    \cup {[type |-> t] : t \in NonTextTypes}
    \cup {CloseFrame, WsError, EndOfStream}

\* seconds added to the requested timeout, and the limit on connecting
GraceSecs == 5
ConnectTimeoutSecs == 10

\* the clock advances in steps of ClockStep seconds, and the timeouts asked
\* for are multiples of it, so that every timer expires on a step
ClockStep == GraceSecs

\* Duration::from_secs((timeout_secs as u64) + 5), for timeout_secs >= 0
ClientTimeout(t) == t + GraceSecs

\* the loop asking the consumer before it extends all_entries, so that the
\* batch on which the consumer stops is left out
ChanOnText_AskBeforeExtend(body, all, keep) ==
    LET stay == [next |-> "continue", all |-> all, called |-> FALSE, cause |-> ""]
    IN
    IF body.kind # "reply"
    THEN [stay EXCEPT !.next = "return", !.cause = "badEnvelope"]
    ELSE LET dec == DecodePayload(body.payload)
         IN  IF ~dec.ok THEN [stay EXCEPT !.next = "panic", !.cause = "panic"]
             ELSE IF body.error
             THEN IF ParseFailure(dec.text).ok
                  THEN [stay EXCEPT !.next = "return", !.cause = "errorFrame"]
                  ELSE [stay EXCEPT !.next = "panic", !.cause = "panic"]
             ELSE LET parsed == ParseChannelEntries(dec.text)
                      entries == IF parsed.ok THEN parsed.val ELSE <<>>
                  IN  IF entries = <<>>
                      THEN [stay EXCEPT !.next = "break", !.cause = "emptyBatch"]
                      ELSE IF ~keep
                      THEN [next |-> "break", all |-> all,
                            called |-> TRUE, cause |-> "consumerStop"]
                      ELSE [next |-> "continue", all |-> all \o entries,
                            called |-> TRUE, cause |-> ""]

\* the loop handing the consumer every batch, the empty one too
ChanOnText_EmptyToConsumer(body, all, keep) ==
    LET stay == [next |-> "continue", all |-> all, called |-> FALSE, cause |-> ""]
    IN
    IF body.kind # "reply"
    THEN [stay EXCEPT !.next = "return", !.cause = "badEnvelope"]
    ELSE LET dec == DecodePayload(body.payload)
         IN  IF ~dec.ok THEN [stay EXCEPT !.next = "panic", !.cause = "panic"]
             ELSE IF body.error
             THEN IF ParseFailure(dec.text).ok
                  THEN [stay EXCEPT !.next = "return", !.cause = "errorFrame"]
                  ELSE [stay EXCEPT !.next = "panic", !.cause = "panic"]
             ELSE LET parsed == ParseChannelEntries(dec.text)
                      entries == IF parsed.ok THEN parsed.val ELSE <<>>
                  IN  IF ~parsed.ok
                      THEN [stay EXCEPT !.next = "break", !.cause = "emptyBatch"]
                      ELSE IF ~keep \/ entries = <<>>
                      THEN [next |-> "break", all |-> all \o entries,
                            called |-> TRUE,
                            cause |-> IF entries = <<>> THEN "emptyBatch" ELSE "consumerStop"]
                      ELSE [next |-> "continue", all |-> all \o entries,
                            called |-> TRUE, cause |-> ""]

\* the outcome of one text frame in send_ws_subscribe_channel's loop:
\* "return" (an error is returned), "break" (the loop is left and
\* Ok(all_entries) returned), "continue" or "panic"
ChanOnText(body, all, keep) ==
    LET stay == [next |-> "continue", all |-> all, called |-> FALSE, cause |-> ""]
    IN
    IF body.kind # "reply"
    THEN [stay EXCEPT !.next = "return", !.cause = "badEnvelope"]
    ELSE LET dec == DecodePayload(body.payload)
         IN  IF ~dec.ok THEN [stay EXCEPT !.next = "panic", !.cause = "panic"]
             ELSE IF body.error
             THEN IF ParseFailure(dec.text).ok
                  THEN [stay EXCEPT !.next = "return", !.cause = "errorFrame"]
                  ELSE [stay EXCEPT !.next = "panic", !.cause = "panic"]
             ELSE LET parsed == ParseChannelEntries(dec.text)
                      entries == IF parsed.ok THEN parsed.val ELSE <<>>
                  IN  IF entries = <<>>
                      THEN [stay EXCEPT !.next = "break", !.cause = "emptyBatch"]
                      ELSE IF ~keep
                      THEN [next |-> "break", all |-> all \o entries,
                            called |-> TRUE, cause |-> "consumerStop"]
                      ELSE [next |-> "continue", all |-> all \o entries,
                            called |-> TRUE, cause |-> ""]

\* the entries of a text frame that reaches the consumer
FrameEntries(body) == ParseChannelEntries(DecodePayload(body.payload).text).val

\* what was accumulated returned in the place of the error
ChanTextError_ReturnsEntries(body) == Ok(allEntries)

\* the error a text frame makes send_ws_subscribe_channel return
ChanTextError(body) ==
    IF body.kind # "reply" THEN RPCError("Failed to parse WebSocket response", FALSE)
    ELSE RPCError(ParseFailure(DecodePayload(body.payload).text).val.message, FALSE)

WsInit ==
    /\ wsFn \in {"channel", "process"}
    /\ wsPc = "connecting"
    /\ timeoutSecs \in {k * ClockStep : k \in 0..MaxTimeoutSteps}
    /\ now = 0
    /\ listenStart = 0
    /\ readStart = 0
    /\ inbox = <<>>
    /\ framesSent = 0
    /\ allEntries = <<>>
    /\ callbackLog = <<>>
    /\ lastItem = NoItem
    /\ endCause = ""
    /\ wsResult = None
    /\ wsConnects = 0
    /\ wsWrites = 0

\* the session ends: the call returns res (or panics) through branch cause
WsReturn(res, cause) ==
    /\ wsPc' = "done"
    /\ wsResult' = res
    /\ endCause' = cause

\* ---- send_ws_subscribe_channel
\* the loop entered as soon as the socket is open, nothing written
ChanConnectOk_StartsListening ==
    /\ wsFn = "channel" /\ wsPc = "connecting"
    /\ wsPc' = "listening"
    /\ wsConnects' = wsConnects + 1
    /\ UNCHANGED <<pairVars, deadlineVars, keyVars, reqVars, composeVars, urlVars, cryptoVars, rpcVars, listenStart, wsFn, timeoutSecs, now, readStart, inbox, framesSent,
                   allEntries, callbackLog, lastItem, endCause, wsResult, wsWrites>>

ChanConnectOk ==
    /\ wsFn = "channel" /\ wsPc = "connecting"
    /\ wsPc' = "sending"
    /\ wsConnects' = wsConnects + 1
    /\ UNCHANGED <<pairVars, deadlineVars, keyVars, reqVars, composeVars, urlVars, cryptoVars, rpcVars, listenStart, wsFn, timeoutSecs, now, readStart, inbox, framesSent,
                   allEntries, callbackLog, lastItem, endCause, wsResult, wsWrites>>

ChanConnectFail ==
    /\ wsFn = "channel" /\ wsPc = "connecting"
    /\ WsReturn(RPCError("WebSocket connection failed", TRUE), "connectFailed")
    /\ wsConnects' = wsConnects + 1
    /\ UNCHANGED <<pairVars, deadlineVars, keyVars, reqVars, composeVars, urlVars, cryptoVars, rpcVars, listenStart, wsFn, timeoutSecs, now, readStart, inbox, framesSent,
                   allEntries, callbackLog, lastItem, wsWrites>>

ChanConnectTimeout ==
    /\ wsFn = "channel" /\ wsPc = "connecting"
    /\ now >= ConnectTimeoutSecs
    /\ WsReturn(RPCError("WebSocket connection timed out", TRUE), "connectTimeout")
    /\ wsConnects' = wsConnects + 1
    /\ UNCHANGED <<pairVars, deadlineVars, keyVars, reqVars, composeVars, urlVars, cryptoVars, rpcVars, listenStart, wsFn, timeoutSecs, now, readStart, inbox, framesSent,
                   allEntries, callbackLog, lastItem, wsWrites>>

\* the subscription frame is written; the first read and its timer begin
ChanSendOk ==
    /\ wsFn = "channel" /\ wsPc = "sending"
    /\ wsPc' = "listening"
    /\ listenStart' = now
    /\ readStart' = now
    /\ wsWrites' = wsWrites + 1
    /\ UNCHANGED <<pairVars, deadlineVars, keyVars, reqVars, composeVars, urlVars, cryptoVars, rpcVars, wsFn, timeoutSecs, now, inbox, framesSent,
                   allEntries, callbackLog, lastItem, endCause, wsResult, wsConnects>>

\* the failed write reported as an error of the request
ChanSendFail_NotConnection ==
    /\ wsFn = "channel" /\ wsPc = "sending"
    /\ WsReturn(RPCError("WebSocket send failed", FALSE), "sendFailed")
    /\ wsWrites' = wsWrites + 1
    /\ UNCHANGED <<pairVars, deadlineVars, keyVars, reqVars, composeVars, urlVars, cryptoVars, rpcVars, listenStart, wsFn, timeoutSecs, now, readStart, inbox, framesSent,
                   allEntries, callbackLog, lastItem, wsConnects>>

ChanSendFail ==
    /\ wsFn = "channel" /\ wsPc = "sending"
    /\ WsReturn(RPCError("WebSocket send failed", TRUE), "sendFailed")
    /\ wsWrites' = wsWrites + 1
    /\ UNCHANGED <<pairVars, deadlineVars, keyVars, reqVars, composeVars, urlVars, cryptoVars, rpcVars, listenStart, wsFn, timeoutSecs, now, readStart, inbox, framesSent,
                   allEntries, callbackLog, lastItem, wsConnects>>

\* Ok(Some(Ok(Message::Text(text))))
ChanReadText ==
    /\ wsFn = "channel" /\ wsPc = "listening"
    /\ inbox # <<>> /\ Head(inbox).type = "text"
    /\ \E keep \in BOOLEAN :
          LET body == Head(inbox).body
              out == ChanOnText(body, allEntries, keep)
          IN  /\ allEntries' = out.all
              /\ callbackLog' = IF out.called
                                THEN Append(callbackLog,
                                            [batch |-> FrameEntries(body), ret |-> keep])
                                ELSE callbackLog
              /\ CASE out.next = "continue" ->
                        /\ readStart' = now
                        /\ UNCHANGED <<wsPc, wsResult, endCause>>
                   [] out.next = "break" ->
                        /\ WsReturn(Ok(out.all), out.cause)
                        /\ UNCHANGED readStart
                   [] out.next = "return" ->
                        /\ WsReturn(ChanTextError(body), out.cause)
                        /\ UNCHANGED readStart
                   [] out.next = "panic" ->
                        /\ WsReturn(Panic("unwrap on Err"), out.cause)
                        /\ UNCHANGED readStart
    /\ lastItem' = Head(inbox)
    /\ inbox' = Tail(inbox)
    /\ UNCHANGED <<pairVars, deadlineVars, keyVars, reqVars, composeVars, urlVars, cryptoVars, rpcVars, listenStart, wsFn, timeoutSecs, now, framesSent, wsConnects, wsWrites>>

\* Ok(Some(Ok(Message::Close(_)))) => break
ChanReadClose ==
    /\ wsFn = "channel" /\ wsPc = "listening"
    /\ inbox # <<>> /\ Head(inbox).type = "close"
    /\ WsReturn(Ok(allEntries), "close")
    /\ lastItem' = Head(inbox)
    /\ inbox' = Tail(inbox)
    /\ UNCHANGED <<pairVars, deadlineVars, keyVars, reqVars, composeVars, urlVars, cryptoVars, rpcVars, listenStart, wsFn, timeoutSecs, now, readStart, framesSent, allEntries, callbackLog, wsConnects, wsWrites>>

\* a frame that is no text and no close taken as the end of the stream
ChanReadOther_Breaks ==
    /\ wsFn = "channel" /\ wsPc = "listening"
    /\ inbox # <<>> /\ Head(inbox).type \in NonTextTypes
    /\ WsReturn(Ok(allEntries), "close")
    /\ lastItem' = Head(inbox)
    /\ inbox' = Tail(inbox)
    /\ UNCHANGED <<pairVars, deadlineVars, keyVars, reqVars, composeVars, urlVars, cryptoVars, rpcVars, listenStart, wsFn, timeoutSecs, now, readStart, framesSent, allEntries, callbackLog, wsConnects, wsWrites>>

\* Ok(Some(Ok(_))) => {}: the loop goes round, with a new timer
ChanReadOther ==
    /\ wsFn = "channel" /\ wsPc = "listening"
    /\ inbox # <<>> /\ Head(inbox).type \in NonTextTypes
    /\ readStart' = now
    /\ lastItem' = Head(inbox)
    /\ inbox' = Tail(inbox)
    /\ UNCHANGED <<pairVars, deadlineVars, keyVars, reqVars, composeVars, urlVars, cryptoVars, rpcVars, listenStart, wsFn, wsPc, timeoutSecs, now, framesSent, allEntries, callbackLog,
                   endCause, wsResult, wsConnects, wsWrites>>

\* Ok(Some(Err(e)))
ChanReadError ==
    /\ wsFn = "channel" /\ wsPc = "listening"
    /\ inbox # <<>> /\ Head(inbox).type = "wserror"
    /\ WsReturn(RPCError("WebSocket error", TRUE), "wsError")
    /\ lastItem' = Head(inbox)
    /\ inbox' = Tail(inbox)
    /\ UNCHANGED <<pairVars, deadlineVars, keyVars, reqVars, composeVars, urlVars, cryptoVars, rpcVars, listenStart, wsFn, timeoutSecs, now, readStart, framesSent, allEntries, callbackLog, wsConnects, wsWrites>>

\* Ok(None) => break
ChanReadEnd ==
    /\ wsFn = "channel" /\ wsPc = "listening"
    /\ inbox # <<>> /\ Head(inbox).type = "eof"
    /\ WsReturn(Ok(allEntries), "eof")
    /\ lastItem' = Head(inbox)
    /\ inbox' = Tail(inbox)
    /\ UNCHANGED <<pairVars, deadlineVars, keyVars, reqVars, composeVars, urlVars, cryptoVars, rpcVars, listenStart, wsFn, timeoutSecs, now, readStart, framesSent, allEntries, callbackLog, wsConnects, wsWrites>>

\* the expiry of the timer reported as an error instead of leaving the loop
ChanReadTimeout_AsError ==
    /\ wsFn = "channel" /\ wsPc = "listening"
    /\ inbox = <<>>
    /\ now - readStart >= ClientTimeout(timeoutSecs)
    /\ WsReturn(RPCError("timed out", FALSE), "timeout")
    /\ UNCHANGED <<pairVars, deadlineVars, keyVars, reqVars, composeVars, urlVars, cryptoVars, rpcVars, listenStart, wsFn, timeoutSecs, now, readStart, inbox, framesSent,
                   allEntries, callbackLog, lastItem, wsConnects, wsWrites>>

\* Err(_) => break: nothing arrived for client_timeout since this read began
ChanReadTimeout ==
    /\ wsFn = "channel" /\ wsPc = "listening"
    /\ inbox = <<>>
    /\ now - readStart >= ClientTimeout(timeoutSecs)
    /\ WsReturn(Ok(allEntries), "timeout")
    /\ UNCHANGED <<pairVars, deadlineVars, keyVars, reqVars, composeVars, urlVars, cryptoVars, rpcVars, listenStart, wsFn, timeoutSecs, now, readStart, inbox, framesSent,
                   allEntries, callbackLog, lastItem, wsConnects, wsWrites>>

\* ---- send_ws_subscribe_process
ProcConnectOk ==
    /\ wsFn = "process" /\ wsPc = "connecting"
    /\ wsPc' = "sending"
    /\ wsConnects' = wsConnects + 1
    /\ UNCHANGED <<pairVars, deadlineVars, keyVars, reqVars, composeVars, urlVars, cryptoVars, rpcVars, listenStart, wsFn, timeoutSecs, now, readStart, inbox, framesSent,
                   allEntries, callbackLog, lastItem, endCause, wsResult, wsWrites>>

ProcConnectFail ==
    /\ wsFn = "process" /\ wsPc = "connecting"
    /\ WsReturn(RPCError("WebSocket connection failed", TRUE), "connectFailed")
    /\ wsConnects' = wsConnects + 1
    /\ UNCHANGED <<pairVars, deadlineVars, keyVars, reqVars, composeVars, urlVars, cryptoVars, rpcVars, listenStart, wsFn, timeoutSecs, now, readStart, inbox, framesSent,
                   allEntries, callbackLog, lastItem, wsWrites>>

ProcSendOk ==
    /\ wsFn = "process" /\ wsPc = "sending"
    /\ wsPc' = "listening"
    /\ listenStart' = now
    /\ readStart' = now
    /\ wsWrites' = wsWrites + 1
    /\ UNCHANGED <<pairVars, deadlineVars, keyVars, reqVars, composeVars, urlVars, cryptoVars, rpcVars, wsFn, timeoutSecs, now, inbox, framesSent,
                   allEntries, callbackLog, lastItem, endCause, wsResult, wsConnects>>

ProcSendFail ==
    /\ wsFn = "process" /\ wsPc = "sending"
    /\ WsReturn(RPCError("WebSocket send failed", TRUE), "sendFailed")
    /\ wsWrites' = wsWrites + 1
    /\ UNCHANGED <<pairVars, deadlineVars, keyVars, reqVars, composeVars, urlVars, cryptoVars, rpcVars, listenStart, wsFn, timeoutSecs, now, readStart, inbox, framesSent,
                   allEntries, callbackLog, lastItem, wsConnects>>

\* what send_ws_subscribe_process returns for the text frame it read
ProcOnText(body) ==
    IF body.kind # "reply"
    THEN [res |-> RPCError("Failed to parse WebSocket response", FALSE),
          cause |-> "badEnvelope"]
    ELSE IF body.error
    THEN LET dec == DecodePayload(body.payload)
         IN  IF dec.ok /\ ParseFailure(dec.text).ok
             THEN [res |-> RPCError(ParseFailure(dec.text).val.message, FALSE),
                   cause |-> "errorFrame"]
             ELSE [res |-> Panic("unwrap on Err"), cause |-> "panic"]
    ELSE [res |-> Ok("unit"), cause |-> "notified"]

\* Some(Ok(Message::Text(text)))
ProcReadText ==
    /\ wsFn = "process" /\ wsPc = "listening"
    /\ inbox # <<>> /\ Head(inbox).type = "text"
    /\ LET out == ProcOnText(Head(inbox).body)
       IN  WsReturn(out.res, out.cause)
    /\ lastItem' = Head(inbox)
    /\ inbox' = Tail(inbox)
    /\ UNCHANGED <<pairVars, deadlineVars, keyVars, reqVars, composeVars, urlVars, cryptoVars, rpcVars, listenStart, wsFn, timeoutSecs, now, readStart, framesSent, allEntries, callbackLog, wsConnects, wsWrites>>

\* Some(Ok(_)) => {}: any other frame ends the wait with Ok(())
ProcReadOther ==
    /\ wsFn = "process" /\ wsPc = "listening"
    /\ inbox # <<>> /\ Head(inbox).type \in NonTextTypes \cup {"close"}
    /\ WsReturn(Ok("unit"), "otherFrame")
    /\ lastItem' = Head(inbox)
    /\ inbox' = Tail(inbox)
    /\ UNCHANGED <<pairVars, deadlineVars, keyVars, reqVars, composeVars, urlVars, cryptoVars, rpcVars, listenStart, wsFn, timeoutSecs, now, readStart, framesSent, allEntries, callbackLog, wsConnects, wsWrites>>

\* Some(Err(e))
ProcReadError ==
    /\ wsFn = "process" /\ wsPc = "listening"
    /\ inbox # <<>> /\ Head(inbox).type = "wserror"
    /\ WsReturn(RPCError("WebSocket error", TRUE), "wsError")
    /\ lastItem' = Head(inbox)
    /\ inbox' = Tail(inbox)
    /\ UNCHANGED <<pairVars, deadlineVars, keyVars, reqVars, composeVars, urlVars, cryptoVars, rpcVars, listenStart, wsFn, timeoutSecs, now, readStart, framesSent, allEntries, callbackLog, wsConnects, wsWrites>>

\* None: the if-let does not match
ProcReadEnd ==
    /\ wsFn = "process" /\ wsPc = "listening"
    /\ inbox # <<>> /\ Head(inbox).type = "eof"
    /\ WsReturn(Ok("unit"), "eof")
    /\ lastItem' = Head(inbox)
    /\ inbox' = Tail(inbox)
    /\ UNCHANGED <<pairVars, deadlineVars, keyVars, reqVars, composeVars, urlVars, cryptoVars, rpcVars, listenStart, wsFn, timeoutSecs, now, readStart, framesSent, allEntries, callbackLog, wsConnects, wsWrites>>

\* ---- the server and the clock
\* whether the stream has delivered its transport error or its end
StreamOver ==
    \/ lastItem.type \in {"wserror", "eof"}
    \/ \E i \in 1..Len(inbox) : inbox[i].type \in {"wserror", "eof"}

\* the server pushes one more item, also after the client has stopped reading
ServerSend ==
    /\ wsPc \in {"listening", "done"}
    /\ Len(inbox) < MaxInbox
    /\ framesSent < MaxFrames
    /\ ~StreamOver
    /\ \E item \in StreamItems : inbox' = Append(inbox, item)
    /\ framesSent' = framesSent + 1
    /\ UNCHANGED <<pairVars, deadlineVars, keyVars, reqVars, composeVars, urlVars, cryptoVars, rpcVars, listenStart, wsFn, wsPc, timeoutSecs, now, readStart,
                   allEntries, callbackLog, lastItem, endCause, wsResult, wsConnects, wsWrites>>

\* ClockStep seconds pass.  A pending timer fires rather than letting time pass
\* beyond it, and a client with a frame to read reads it at once.
Tick ==
    /\ now < MaxTime
    /\ CASE wsPc = "connecting" -> wsFn = "channel" => now < ConnectTimeoutSecs
         [] wsPc = "sending" -> TRUE
         [] wsPc = "listening" ->
               /\ inbox = <<>>
               /\ wsFn = "channel" => now - readStart < ClientTimeout(timeoutSecs)
         [] OTHER -> FALSE
    /\ now' = now + ClockStep
    /\ UNCHANGED <<pairVars, deadlineVars, keyVars, reqVars, composeVars, urlVars, cryptoVars, rpcVars, listenStart, wsFn, wsPc, timeoutSecs, readStart, inbox, framesSent,
                   allEntries, callbackLog, lastItem, endCause, wsResult, wsConnects, wsWrites>>

WsNext ==
    \/ ChanConnectOk \/ ChanConnectFail \/ ChanConnectTimeout
    \/ ChanSendOk \/ ChanSendFail
    \/ ChanReadText \/ ChanReadClose \/ ChanReadOther
    \/ ChanReadError \/ ChanReadEnd \/ ChanReadTimeout
    \/ ProcConnectOk \/ ProcConnectFail \/ ProcSendOk \/ ProcSendFail
    \/ ProcReadText \/ ProcReadOther \/ ProcReadError \/ ProcReadEnd
    \/ ServerSend \/ Tick

----------------------------------------------------------------------------
(***************************************************************************)
(* rpc.rs: the deadline send_ws_subscribe_channel computes,                *)
(*     Duration::from_secs((timeout_secs as u64) + 5).                     *)
(* timeout_secs is a signed integer of TimeoutBits bits and the seconds an *)
(* unsigned one of SecsBits bits (32 and 64 in the code, scaled down with  *)
(* the same two's complement arithmetic).  The addition aborts on overflow *)
(* in a build with overflow checks (debug) and wraps in one without        *)
(* (release).                                                              *)
(***************************************************************************)
TimeoutBits == 6
SecsBits == 12

\* every value of the type of timeout_secs
TimeoutValues == (-(2 ^ (TimeoutBits - 1)))..(2 ^ (TimeoutBits - 1) - 1)

Builds == {"debug", "release"}

\* timeout_secs as u64: a negative value is sign-extended
AsU64(n) == IF n >= 0 THEN n ELSE 2 ^ SecsBits + n

\* the addition of two unsigned integers of SecsBits bits
AddU64(a, b, build) ==
    IF a + b < 2 ^ SecsBits THEN Ok(a + b)
    ELSE IF build = "debug" THEN Panic("attempt to add with overflow")
    ELSE Ok((a + b) % (2 ^ SecsBits))

\* the seconds of client_timeout
client_timeout(timeout_secs, build) == AddU64(AsU64(timeout_secs), GraceSecs, build)

DeadlineInit ==
    /\ dlTimeout \in TimeoutValues
    /\ dlBuild \in Builds
    /\ dlResult = None

\* send_ws_subscribe_channel computes client_timeout
ComputeDeadline ==
    /\ dlResult = None
    /\ dlResult' = client_timeout(dlTimeout, dlBuild)
    /\ UNCHANGED <<pairVars, keyVars, reqVars, composeVars, urlVars, cryptoVars, rpcVars, wsVars,
                   dlTimeout, dlBuild>>

DeadlineNext == ComputeDeadline

----------------------------------------------------------------------------
(***************************************************************************)
(* rpc.rs: two send_ws_subscribe_channel calls running side by side, and a *)
(* request-response operation beside them.  Each call has its own socket,  *)
(* its own all_entries and its own callback; sess[s] holds them, with the  *)
(* items read from the socket so far (got).                                *)
(***************************************************************************)
Sessions == {1, 2}

\* frames the server sends on one socket
MaxPairFrames == 2

\* the batch the server sends on the socket of session s
PairBatch(s) == IF s = 1 THEN Batch1Doc ELSE Batch2Doc

\* the items the server puts on the socket of session s
PairItems(s) ==
    {TextFrame(Reply(Base64Of(PairBatch(s)), FALSE)),
     TextFrame(Reply(Base64Of(FailureDoc), TRUE)),
     [type |-> "binary"], WsError}

NewSession ==
    [pc |-> "connecting", inbox |-> <<>>, sent |-> 0, got |-> <<>>,
     all |-> <<>>, log |-> <<>>, result |-> None]

PairInit == sess = [s \in Sessions |-> NewSession]

\* one buffer for every call
OwnBuffer_Shared(ss, s) == ss[1].all

\* let mut all_entries = Vec::new(): the buffer of the call
OwnBuffer(ss, s) == ss[s].all

\* connect_async gives the stream
PairConnectOk(s) ==
    /\ sess[s].pc = "connecting"
    /\ sess' = [sess EXCEPT ![s].pc = "sending"]
    /\ UNCHANGED <<deadlineVars, keyVars, reqVars, composeVars, urlVars, cryptoVars, rpcVars, wsVars>>

\* connect_async fails, or takes longer than ten seconds
PairConnectFail(s) ==
    /\ sess[s].pc = "connecting"
    /\ sess' = [sess EXCEPT ![s].pc = "done",
                            ![s].result = RPCError("WebSocket connection failed", TRUE)]
    /\ UNCHANGED <<deadlineVars, keyVars, reqVars, composeVars, urlVars, cryptoVars, rpcVars, wsVars>>

\* write.send(Message::Text(msg)) succeeds and the loop is entered
PairSendOk(s) ==
    /\ sess[s].pc = "sending"
    /\ sess' = [sess EXCEPT ![s].pc = "listening"]
    /\ UNCHANGED <<deadlineVars, keyVars, reqVars, composeVars, urlVars, cryptoVars, rpcVars, wsVars>>

PairSendFail(s) ==
    /\ sess[s].pc = "sending"
    /\ sess' = [sess EXCEPT ![s].pc = "done",
                            ![s].result = RPCError("WebSocket send failed", TRUE)]
    /\ UNCHANGED <<deadlineVars, keyVars, reqVars, composeVars, urlVars, cryptoVars, rpcVars, wsVars>>

\* the session after a text frame: ChanOnText applied to the buffer of the call
PairAfterText(st, body, out, keep) ==
    [st EXCEPT
       !.all = out.all,
       !.log = IF out.called
               THEN Append(st.log, [batch |-> FrameEntries(body), ret |-> keep])
               ELSE st.log,
       !.pc = CASE out.next = "continue" -> "listening"
                [] out.next = "panic" -> "panicked"
                [] OTHER -> "done",
       !.result = CASE out.next = "continue" -> None
                    [] out.next = "break" -> Ok(out.all)
                    [] out.next = "return" -> ChanTextError(body)
                    [] OTHER -> Panic("unwrap")]

\* one turn of the loop of session s with an item on its socket
PairRead(s) ==
    /\ sess[s].pc = "listening"
    /\ sess[s].inbox # <<>>
    /\ \E keep \in BOOLEAN :
          LET item == Head(sess[s].inbox)
              st == [sess[s] EXCEPT !.inbox = Tail(@), !.got = Append(@, item)]
          IN  sess' = [sess EXCEPT ![s] =
                 CASE item.type = "text" ->
                        PairAfterText(st, item.body,
                                      ChanOnText(item.body, OwnBuffer(sess, s), keep), keep)
                   [] item.type = "wserror" ->
                        [st EXCEPT !.pc = "done",
                                   !.result = RPCError("WebSocket error", TRUE)]
                   [] item.type \in {"close", "eof"} ->
                        [st EXCEPT !.pc = "done", !.result = Ok(OwnBuffer(sess, s))]
                   [] OTHER -> st]
    /\ UNCHANGED <<deadlineVars, keyVars, reqVars, composeVars, urlVars, cryptoVars, rpcVars, wsVars>>

\* Err(_) => break: no item within client_timeout
PairReadTimeout(s) ==
    /\ sess[s].pc = "listening"
    /\ sess[s].inbox = <<>>
    /\ sess' = [sess EXCEPT ![s].pc = "done", ![s].result = Ok(OwnBuffer(sess, s))]
    /\ UNCHANGED <<deadlineVars, keyVars, reqVars, composeVars, urlVars, cryptoVars, rpcVars, wsVars>>

\* the server puts one more item on the socket of session s, once the one
\* before it has been read
PairServerSend(s) ==
    /\ sess[s].pc = "listening"
    /\ sess[s].inbox = <<>>
    /\ sess[s].sent < MaxPairFrames
    /\ \E item \in PairItems(s) :
          sess' = [sess EXCEPT ![s].inbox = Append(@, item), ![s].sent = @ + 1]
    /\ UNCHANGED <<deadlineVars, keyVars, reqVars, composeVars, urlVars, cryptoVars, rpcVars, wsVars>>

\* a step of the request-response operation running beside the sessions
PairRpcStep == RpcNext

PairNext ==
    \/ \E s \in Sessions :
          \/ PairConnectOk(s) \/ PairConnectFail(s)
          \/ PairSendOk(s) \/ PairSendFail(s)
          \/ PairRead(s) \/ PairReadTimeout(s)
          \/ PairServerSend(s)
    \/ PairRpcStep

----------------------------------------------------------------------------
(***************************************************************************)
(* rpc.rs: the configured server URL.  SERVER_URL is a static behind a     *)
(* read-write lock: a write and a read are each one step; a                *)
(* set_server_url call is entered, writes, and returns, and other threads  *)
(* run in between.                                                         *)
(***************************************************************************)
HttpScheme == <<104, 116, 116, 112, 58, 47, 47>>          \* "http://"
HttpsScheme == <<104, 116, 116, 112, 115, 58, 47, 47>>    \* "https://"
WsScheme == <<119, 115, 58, 47, 47>>                      \* "ws://"
WssScheme == <<119, 115, 115, 58, 47, 47>>                \* "wss://"
ApiPath == <<47, 97, 112, 105>>                           \* "/api"
PubsubPath == <<47, 112, 117, 98, 115, 117, 98>>          \* "/pubsub"
\* "http://localhost:50080/api"
DEFAULT_SERVER_URL ==
    HttpScheme \o <<108, 111, 99, 97, 108, 104, 111, 115, 116, 58, 53, 48, 48, 56, 48>>
               \o ApiPath

\* str::starts_with
StartsWith(s, pre) == Len(s) >= Len(pre) /\ SubSeq(s, 1, Len(pre)) = pre

\* str::replace: every non-overlapping match of from, left to right
RECURSIVE Replace(_, _, _)
Replace(s, from, to) ==
    IF Len(s) < Len(from) THEN s
    ELSE IF StartsWith(s, from)
    THEN to \o Replace(SubSeq(s, Len(from) + 1, Len(s)), from, to)
    ELSE <<Head(s)>> \o Replace(Tail(s), from, to)

\* get_server_url always answering the default
get_server_url_IgnoresStored(stored) == DEFAULT_SERVER_URL

\* server_url.clone().unwrap_or_else(|| DEFAULT_SERVER_URL.to_string())
get_server_url(stored) == IF stored = None THEN DEFAULT_SERVER_URL ELSE stored.val

get_ws_url(stored) ==
    LET http_url == get_server_url(stored)
        ws_url == IF StartsWith(http_url, HttpsScheme)
                  THEN Replace(http_url, HttpsScheme, WssScheme)
                  ELSE Replace(http_url, HttpScheme, WsScheme)
    IN  Replace(ws_url, ApiPath, PubsubPath)

\* the threads of the program that call into the library
Threads == {1, 2}

\* host names and ports of the base URLs: "a", "p", "i" and ":8"
HostAlphabet == {97, 112, 105}
Hosts == UNION {[1..k -> HostAlphabet] : k \in 1..MaxHostLen}
Ports == {<<>>, <<58, 56>>}

\* the base URLs http://HOST[:PORT]/api and https://HOST[:PORT]/api
BaseUrl(scheme, host, port) == scheme \o host \o port \o ApiPath
BaseUrls == {BaseUrl(sch, h, p) : sch \in {HttpScheme, HttpsScheme}, h \in Hosts, p \in Ports}

\* the URLs the threads hand to set_server_url while they run side by side
UrlChoices == {BaseUrl(HttpScheme, <<97>>, <<>>), BaseUrl(HttpsScheme, <<112>>, <<58, 56>>)}

UrlInit ==
    /\ serverUrl = None
    /\ urlPc = [t \in Threads |-> "idle"]
    /\ urlArg = [t \in Threads |-> <<>>]
    /\ urlRet = [t \in Threads |-> None]
    /\ lastWritten = None
    /\ lastCompleted = None

\* a program in which set_server_url has been called before, or not at all
WsUrlInit ==
    /\ serverUrl \in {None} \cup {Some(u) : u \in BaseUrls}
    /\ urlPc = [t \in Threads |-> "idle"]
    /\ urlArg = [t \in Threads |-> <<>>]
    /\ urlRet = [t \in Threads |-> None]
    /\ lastWritten = serverUrl
    /\ lastCompleted = serverUrl

\* thread t enters set_server_url(url)
SetServerUrlCall(t) ==
    /\ urlPc[t] = "idle"
    /\ \E url \in UrlChoices : urlArg' = [urlArg EXCEPT ![t] = url]
    /\ urlPc' = [urlPc EXCEPT ![t] = "setting"]
    /\ urlRet' = [urlRet EXCEPT ![t] = None]
    /\ UNCHANGED <<serverUrl, lastWritten, lastCompleted, pairVars, deadlineVars, keyVars, reqVars, composeVars, cryptoVars, rpcVars, wsVars>>

\* under the write lock: *server_url = Some(url.to_string())
SetServerUrlWrite(t) ==
    /\ urlPc[t] = "setting"
    /\ serverUrl' = Some(urlArg[t])
    /\ lastWritten' = Some(urlArg[t])
    /\ urlPc' = [urlPc EXCEPT ![t] = "written"]
    /\ UNCHANGED <<urlArg, urlRet, lastCompleted, pairVars, deadlineVars, keyVars, reqVars, composeVars, cryptoVars, rpcVars, wsVars>>

\* the lock is released and set_server_url returns to its caller
SetServerUrlReturn(t) ==
    /\ urlPc[t] = "written"
    /\ lastCompleted' = Some(urlArg[t])
    /\ urlPc' = [urlPc EXCEPT ![t] = "idle"]
    /\ urlArg' = [urlArg EXCEPT ![t] = <<>>]
    /\ UNCHANGED <<serverUrl, urlRet, lastWritten, pairVars, deadlineVars, keyVars, reqVars, composeVars, cryptoVars, rpcVars, wsVars>>

\* thread t calls get_server_url (directly, or as send_rpcmsg does)
GetServerUrl(t) ==
    /\ urlPc[t] = "idle"
    /\ urlRet' = [urlRet EXCEPT ![t] = [fn |-> "get_server_url",
                                        val |-> get_server_url(serverUrl),
                                        written |-> lastWritten,
                                        completed |-> lastCompleted]]
    /\ UNCHANGED <<serverUrl, urlPc, urlArg, lastWritten, lastCompleted,
                   pairVars, deadlineVars, keyVars, reqVars, composeVars, cryptoVars, rpcVars, wsVars>>

\* thread t opens a subscription, which calls get_ws_url
GetWsUrl(t) ==
    /\ urlPc[t] = "idle"
    /\ urlRet' = [urlRet EXCEPT ![t] = [fn |-> "get_ws_url",
                                        val |-> get_ws_url(serverUrl),
                                        written |-> lastWritten,
                                        completed |-> lastCompleted]]
    /\ UNCHANGED <<serverUrl, urlPc, urlArg, lastWritten, lastCompleted,
                   pairVars, deadlineVars, keyVars, reqVars, composeVars, cryptoVars, rpcVars, wsVars>>

UrlNext ==
    \E t \in Threads :
        \/ SetServerUrlCall(t) \/ SetServerUrlWrite(t) \/ SetServerUrlReturn(t)
        \/ GetServerUrl(t) \/ GetWsUrl(t)

WsUrlNext == \E t \in Threads : GetServerUrl(t) \/ GetWsUrl(t)

(***************************************************************************)
(* rpc.rs: one operation (send_rpcmsg, or a subscription) running while    *)
(* the threads call set_server_url.  The operation reads SERVER_URL into a *)
(* local (server_url, ws_url) and then connects to what the local holds.   *)
(***************************************************************************)
ReqKinds == {"rpc", "ws"}

\* the URL an operation of kind k derives from the stored one
ReqUrlOf(k, stored) == IF k = "rpc" THEN get_server_url(stored) ELSE get_ws_url(stored)

ReqInit ==
    /\ reqKind \in ReqKinds
    /\ reqPc = "start"
    /\ reqUrl = None /\ reqSeen = None
    /\ reqReads = 0
    /\ reqTarget = None

\* let server_url = get_server_url(); let ws_url = get_ws_url();
ReqReadUrl ==
    /\ reqPc = "start"
    /\ reqUrl' = Some(ReqUrlOf(reqKind, serverUrl))
    /\ reqSeen' = serverUrl
    /\ reqReads' = reqReads + 1
    /\ reqPc' = "connecting"
    /\ UNCHANGED <<pairVars, deadlineVars, keyVars, composeVars, urlVars, cryptoVars, rpcVars, wsVars,
                   reqKind, reqTarget>>

\* the connection made to the URL stored at that moment
ReqConnect_ReadsAgain ==
    /\ reqPc = "connecting"
    /\ reqTarget' = Some(ReqUrlOf(reqKind, serverUrl))
    /\ reqReads' = reqReads + 1
    /\ reqPc' = "done"
    /\ UNCHANGED <<pairVars, deadlineVars, keyVars, composeVars, urlVars, cryptoVars, rpcVars, wsVars,
                   reqKind, reqUrl, reqSeen>>

\* client.post(&server_url); connect_async(&ws_url)
ReqConnect ==
    /\ reqPc = "connecting"
    /\ reqTarget' = reqUrl
    /\ reqPc' = "done"
    /\ UNCHANGED <<pairVars, deadlineVars, keyVars, composeVars, urlVars, cryptoVars, rpcVars, wsVars,
                   reqKind, reqUrl, reqSeen, reqReads>>

EndpointNext ==
    \/ ReqReadUrl \/ ReqConnect
    \/ \E t \in Threads :
          SetServerUrlCall(t) \/ SetServerUrlWrite(t) \/ SetServerUrlReturn(t)

----------------------------------------------------------------------------
(***************************************************************************)
(* The specifications: each runs one part of the library and leaves the    *)
(* variables of the other parts at rest.                                   *)
(***************************************************************************)
vars == <<pairVars, deadlineVars, keyVars, reqVars, composeVars, urlVars, cryptoVars, rpcVars, wsVars>>

PairIdle == sess = <<>>

DeadlineIdle == dlTimeout = 0 /\ dlBuild = "none" /\ dlResult = None

KeyIdle ==
    /\ osRng = <<>> /\ newKey = None /\ hashOut = None
    /\ idAgain = None /\ sigAgain = None

ReqIdle ==
    /\ reqKind = "none" /\ reqPc = "idle" /\ reqUrl = None /\ reqSeen = None
    /\ reqReads = 0 /\ reqTarget = None

ComposeIdle ==
    /\ composeCall = [fn |-> "none"] /\ composeKey = <<>> /\ wire = None /\ decoded = None

UrlIdle ==
    /\ serverUrl = None /\ urlPc = [t \in Threads |-> "idle"]
    /\ urlArg = [t \in Threads |-> <<>>] /\ urlRet = [t \in Threads |-> None]
    /\ lastWritten = None /\ lastCompleted = None

CryptoIdle ==
    /\ prvkey = <<>> /\ message = <<>> /\ id = None /\ signature = None
    /\ recovered = None /\ rpcmsg = None /\ envRecovered = None
    /\ foreign = None /\ tampered = None

RpcIdle ==
    /\ op = "none" /\ rpcPc = "idle" /\ resp = None /\ sendResult = None
    /\ opResult = None /\ posts = 0

WsIdle ==
    /\ wsFn = "none" /\ wsPc = "idle" /\ timeoutSecs = 0 /\ now = 0
    /\ listenStart = 0 /\ readStart = 0
    /\ inbox = <<>> /\ framesSent = 0 /\ allEntries = <<>> /\ callbackLog = <<>>
    /\ lastItem = NoItem /\ endCause = "" /\ wsResult = None
    /\ wsConnects = 0 /\ wsWrites = 0

\* the signature engine and the request envelope
InitCrypto == PairIdle /\ DeadlineIdle /\ KeyIdle /\ ReqIdle /\ ComposeIdle /\ UrlIdle /\ CryptoInit /\ RpcIdle /\ WsIdle
SpecCrypto == InitCrypto /\ [][CryptoNext]_vars

\* keys generated, texts hashed, identities and signatures made twice
InitKeys == PairIdle /\ DeadlineIdle /\ KeysInit /\ ReqIdle /\ ComposeIdle /\ UrlIdle /\ CryptoInit /\ RpcIdle /\ WsIdle
SpecKeys == InitKeys /\ [][KeysNext]_vars

\* the deadline of a subscription for every timeout asked for
InitDeadline == PairIdle /\ DeadlineInit /\ KeyIdle /\ ReqIdle /\ ComposeIdle /\ UrlIdle /\ CryptoIdle /\ RpcIdle /\ WsIdle
SpecDeadline == InitDeadline /\ [][DeadlineNext]_vars

\* one operation beside threads that set the server URL
InitEndpoint == PairIdle /\ DeadlineIdle /\ KeyIdle /\ ReqInit /\ ComposeIdle /\ UrlInit /\ CryptoIdle /\ RpcIdle /\ WsIdle
SpecEndpoint == InitEndpoint /\ [][EndpointNext]_vars

\* one request-response operation
InitRpc == PairIdle /\ DeadlineIdle /\ KeyIdle /\ ReqIdle /\ ComposeIdle /\ UrlIdle /\ CryptoIdle /\ RpcInit /\ WsIdle
SpecRpc == InitRpc /\ [][RpcNext]_vars

\* requests composed and decoded again
InitCompose == PairIdle /\ DeadlineIdle /\ KeyIdle /\ ReqIdle /\ ComposeInit /\ UrlIdle /\ CryptoIdle /\ RpcIdle /\ WsIdle
SpecCompose == InitCompose /\ [][ComposeNext]_vars

\* threads setting and reading the server URL side by side
InitUrl == PairIdle /\ DeadlineIdle /\ KeyIdle /\ ReqIdle /\ ComposeIdle /\ UrlInit /\ CryptoIdle /\ RpcIdle /\ WsIdle
SpecUrl == InitUrl /\ [][UrlNext]_vars

\* the streaming URL derived from every base URL
InitWsUrl == PairIdle /\ DeadlineIdle /\ KeyIdle /\ ReqIdle /\ ComposeIdle /\ WsUrlInit /\ CryptoIdle /\ RpcIdle /\ WsIdle
SpecWsUrl == InitWsUrl /\ [][WsUrlNext]_vars

\* two subscription sessions and one request-response operation side by side
InitPair ==
    /\ PairInit /\ DeadlineIdle /\ KeyIdle /\ ReqIdle /\ ComposeIdle /\ UrlIdle /\ CryptoIdle /\ WsIdle
    /\ RpcInit /\ op = "channel_append"
SpecPair == InitPair /\ [][PairNext]_vars

\* one subscription session
InitWs == PairIdle /\ DeadlineIdle /\ KeyIdle /\ ReqIdle /\ ComposeIdle /\ UrlIdle /\ CryptoIdle /\ RpcIdle /\ WsInit
SpecWs == InitWs /\ [][WsNext]_vars

\* the steps of the calling task: the connecting, sending and reading code
WsClientStep ==
    \/ ChanConnectOk \/ ChanConnectFail \/ ChanConnectTimeout
    \/ ChanSendOk \/ ChanSendFail
    \/ ChanReadText \/ ChanReadClose \/ ChanReadOther
    \/ ChanReadError \/ ChanReadEnd \/ ChanReadTimeout
    \/ ProcConnectOk \/ ProcConnectFail \/ ProcSendOk \/ ProcSendFail
    \/ ProcReadText \/ ProcReadOther \/ ProcReadError \/ ProcReadEnd

\* one subscription session whose task is scheduled whenever it can run and
\* whose clock keeps going; the server is free never to send anything
SpecWsFair == SpecWs /\ WF_vars(WsClientStep) /\ WF_vars(Tick)

\* one call of the library: a request-response operation or a subscription
InitTransport ==
    /\ PairIdle /\ DeadlineIdle /\ KeyIdle /\ ReqIdle /\ ComposeIdle /\ UrlIdle /\ CryptoIdle
    /\ \/ RpcInit /\ WsIdle
       \/ RpcIdle /\ WsInit
TransportNext == RpcNext \/ WsNext
SpecTransport == InitTransport /\ [][TransportNext]_vars

----------------------------------------------------------------------------
(***************************************************************************)
(* The properties.                                                         *)
(***************************************************************************)
\* StatusCode::is_success: 200..299
IsSuccess(status) == status >= 200 /\ status <= 299

\* the response carries a reply whose payload is the base64 of a text
ReplyWithText(r) ==
    /\ r.kind = "response" /\ r.bodyRead /\ r.body.kind = "reply"
    /\ DecodePayload(r.body.payload).ok

(* C1: send_rpcmsg returns an application-class error carrying
   Failure.message whenever the HTTP status is not success or the reply's
   error flag is true, and Ok only when the status is success and the error
   flag is false.  Stated for replies whose payload holds a Failure. *)
C1_ErrorOnStatusOrFlag ==
    (rpcPc = "done" /\ ReplyWithText(resp))
        => /\ (/\ ParseFailure(DecodePayload(resp.body.payload).text).ok
               /\ (~IsSuccess(resp.status) \/ resp.body.error))
                  => sendResult = RPCError("bad request", FALSE)
           /\ sendResult.tag = "ok" => (IsSuccess(resp.status) /\ ~resp.body.error)

(* C2: a subscribe_channel session has returned by timeout + 5 seconds after
   its start, whatever frames arrive.  Stated for the sessions whose
   connecting and sending took no time, so that the session and its
   listening start together. *)
C2_OverallDeadline ==
    (wsFn = "channel" /\ wsPc = "listening" /\ listenStart = 0)
        => now <= timeoutSecs + GraceSecs

\* the batches the consumer was given, one after the other
RECURSIVE Delivered(_)
Delivered(log) == IF log = <<>> THEN <<>> ELSE Head(log).batch \o Delivered(Tail(log))

\* the consumer has answered false
ConsumerStopped == callbackLog # <<>> /\ ~callbackLog[Len(callbackLog)].ret

(* C3: when the consumer returns false on the k-th non-empty batch, the
   session stops, the result is the concatenation of the first k batches, and
   the frame that carried the k-th batch is the last one read. *)
C3_ConsumerStopEndsSession ==
    (wsFn = "channel" /\ ConsumerStopped)
        => /\ wsPc = "done"
           /\ wsResult = Ok(Delivered(callbackLog))
           /\ \A i \in 1..Len(callbackLog) :
                 /\ callbackLog[i].batch # <<>>
                 /\ i < Len(callbackLog) => callbackLog[i].ret
           /\ lastItem.type = "text"
           /\ FrameEntries(lastItem.body) = callbackLog[Len(callbackLog)].batch

C3_Witness ==
    /\ wsFn = "channel" /\ ConsumerStopped /\ Len(callbackLog) = 2
    /\ callbackLog[1].batch # callbackLog[2].batch
    /\ inbox # <<>> /\ inbox[1].type \in {"text", "close"}

\* the last item read is a text frame holding a reply
LastIsReply == lastItem.type = "text" /\ lastItem.body.kind = "reply"

\* the last item read is a reply without the error flag whose payload gives
\* no entries
LastIsEmptyBatch ==
    /\ LastIsReply /\ ~lastItem.body.error
    /\ DecodePayload(lastItem.body.payload).ok
    /\ LET parsed == ParseChannelEntries(DecodePayload(lastItem.body.payload).text)
       IN  ~parsed.ok \/ parsed.val = <<>>

(* C4, as the claim has it: subscribe_channel returns an error only when an
   error-flagged frame was received or a connection-level fault occurred. *)
C4_ErrorOnlyFailedOrConnection ==
    (wsFn = "channel" /\ wsResult.tag = "err")
        => \/ wsResult.connection_error
           \/ (LastIsReply /\ lastItem.body.error)

(* C4, amended: subscribe_channel returns an error only when an error-flagged
   frame was received, a text frame was no reply envelope, or a
   connection-level fault occurred (connect failure or timeout, send failure,
   transport error); a session ended by an empty batch, a close frame, the end
   of the stream, the expiry of the timer or the consumer returning false
   returns Ok with the accumulated entries. *)
C4_ErrorCauses ==
    wsFn = "channel" =>
        /\ wsResult.tag = "err" =>
              \/ /\ wsResult.connection_error
                 /\ endCause \in {"connectFailed", "connectTimeout", "sendFailed", "wsError"}
                 /\ endCause = "wsError" <=> lastItem.type = "wserror"
              \/ /\ ~wsResult.connection_error
                 /\ lastItem.type = "text"
                 /\ lastItem.body.kind # "reply" \/ lastItem.body.error
        /\ (/\ wsPc = "done"
            /\ \/ lastItem.type \in {"close", "eof"}
               \/ endCause = "timeout"
               \/ ConsumerStopped
               \/ LastIsEmptyBatch)
              => wsResult = Ok(Delivered(callbackLog))

C4_Witness ==
    /\ wsFn = "channel" /\ wsResult.tag = "err" /\ ~wsResult.connection_error
    /\ lastItem.type = "text" /\ lastItem.body.kind # "reply"
    /\ callbackLog # <<>>

\* a private key the curve accepts: one byte, 0 < d < n
ValidKey(k) == gen_id(k).tag = "ok"

(* C5: for every valid private key k and every text m, the identity recovered
   from m and gen_signature(m, k) is gen_id(k). *)
C5_RecoverRoundTrip ==
    (ValidKey(prvkey) /\ recovered # None)
        => (recovered.tag = "ok" /\ recovered = gen_id(prvkey))

C5_Witness ==
    /\ ValidKey(prvkey) /\ recovered.tag = "ok" /\ Len(message) = MaxMsgLen
    /\ HexDecode(signature.val).bytes[3] >= 2

(* C6: the signature of a composed envelope is over the base64 payload text:
   recid(envelope.payload, envelope.signature) is gen_id(k), and the payload is
   the base64 text of the request, which differs from the request itself. *)
C6_EnvelopeSignedOverBase64 ==
    (rpcmsg.tag = "ok" /\ envRecovered # None)
        => /\ envRecovered = gen_id(prvkey)
           /\ envRecovered.tag = "ok"
           /\ rpcmsg.val.payload = Base64Encode(message)
           /\ rpcmsg.val.signature = gen_signature(rpcmsg.val.payload, prvkey).val

C6_Witness ==
    /\ rpcmsg.tag = "ok" /\ envRecovered.tag = "ok" /\ Len(message) = MaxMsgLen
    /\ rpcmsg.val.payload # message

(* C7: send_rpcmsg reports a connection-class error exactly when the
   transport fails before any response; every failure reported after a
   response was received has conn_err() false, and the public operation hands
   the error on unchanged. *)
C7_ConnErrOnlyBeforeResponse ==
    rpcPc = "done" =>
        /\ resp.kind = "transport_error" =>
              (sendResult.tag = "err" /\ sendResult.connection_error)
        /\ (resp.kind = "response" /\ sendResult.tag = "err") =>
              ~sendResult.connection_error
        /\ sendResult.tag = "err" => opResult = sendResult

C7_Witness ==
    /\ rpcPc = "done" /\ resp.kind = "response" /\ ~resp.bodyRead
    /\ opResult.tag = "err" /\ ~opResult.connection_error

(* C8: a reply whose payload cannot be decoded as the type the operation
   expects is never turned into a successful (empty or default) result. *)
C8_UndecodableNeverOk ==
    (/\ rpcPc = "done" /\ ReplyWithText(resp)
     /\ ~Decodable(op, DecodePayload(resp.body.payload).text))
        => opResult.tag # "ok"

(* C9: whatever the server answers, a public operation returns Ok or Err; it
   does not panic. *)
C9_NoPanic == opResult.tag # "panic"

(* C10: a frame whose error flag is true ends the session at once with an
   application-class error carrying the decoded Failure.message, without the
   consumer being invoked for it. *)
C10_ErrorFrameFails ==
    (wsFn \in {"channel", "process"} /\ LastIsReply /\ lastItem.body.error)
        => /\ wsPc = "done"
           /\ wsResult.tag = "err"
           /\ ~wsResult.connection_error
           /\ wsResult.details = ParseFailure(DecodePayload(lastItem.body.payload).text).val.message

\* C11: subscribe_process returns Ok(()) only if the frame it read was a text
\* frame holding a reply whose error flag is false (the state-change
\* notification).
C11_OkOnlyAfterNotification ==
    (wsFn = "process" /\ wsPc = "done" /\ wsResult.tag = "ok")
        => /\ lastItem.type = "text"
           /\ lastItem.body.kind = "reply"
           /\ ~lastItem.body.error

\* C12: a subscribe_process session that has written its subscription frame
\* ends, also when the server never sends a frame.
C12_ProcessSessionEnds ==
    (wsFn = "process" /\ wsPc = "listening") ~> (wsPc = "done" \/ framesSent > 0)

\* a key text that is the hex text of one scalar d with 0 < d < n
KeyWellFormed(k) ==
    /\ HexDecode(k).ok
    /\ Len(HexDecode(k).bytes) = 1
    /\ HexDecode(k).bytes[1] \in 1..(CurveN - 1)

\* a signature text that is the hex text of r, s, v with r and s in range,
\* v a recovery id, and from which a point is recovered for the text msg
SigWellFormed(msg, sig) ==
    /\ HexDecode(sig).ok
    /\ Len(HexDecode(sig).bytes) = 3
    /\ LET b == HexDecode(sig).bytes
       IN  /\ b[1] \in 1..(CurveN - 1) /\ b[2] \in 1..(CurveN - 1) /\ b[3] \in 0..3
           /\ RecoverFromPrehash(Sha3_256(msg), b[1], b[2], b[3]).ok

\* C13: gen_id, gen_signature and recid answer malformed hex, an out-of-range
\* key, a signature of the wrong width and a signature from which no point is
\* recovered with a decoding error returned to the caller.
C13_MalformedInputIsAnError ==
    /\ (id # None /\ ~KeyWellFormed(prvkey)) => id.tag = "err"
    /\ (signature # None /\ ~KeyWellFormed(prvkey)) => signature.tag = "err"
    /\ (foreign # None /\ ~SigWellFormed(message, foreign.sig))
          => foreign.result.tag = "err"

\* what a get_server_url call answered, given the Some(argument) of a
\* set_server_url call or None
Answers(ret, setting) ==
    ret.val = (IF setting = None THEN DEFAULT_SERVER_URL ELSE setting.val)

\* C14 as stated: get_server_url returns the argument of the set_server_url
\* call that completed last, or the default when none has completed.
C14_MostRecentlyCompleted ==
    \A t \in Threads :
        (urlRet[t] # None /\ urlRet[t].fn = "get_server_url")
            => Answers(urlRet[t], urlRet[t].completed)

\* C14: get_server_url returns the whole argument of the set_server_url call
\* that wrote last before the read, or the default when none has written, and
\* the stored URL changes only in the write of a set_server_url call.
C14_LastWriterWins ==
    /\ [](\A t \in Threads :
             (urlRet[t] # None /\ urlRet[t].fn = "get_server_url")
                 => Answers(urlRet[t], urlRet[t].written))
    /\ [][serverUrl' # serverUrl
             => \E t \in Threads : /\ urlPc[t] = "setting" /\ urlPc'[t] = "written"
                                   /\ serverUrl' = Some(urlArg[t])]_vars

C14_Witness ==
    \E t \in Threads :
        /\ urlRet[t] # None /\ urlRet[t].fn = "get_server_url"
        /\ urlRet[t].written # None /\ urlRet[t].completed # None
        /\ urlRet[t].written # urlRet[t].completed
        /\ \E o \in Threads \ {t} : urlPc[o] = "written"

\* C15: for the base URL http://HOST[:PORT]/api the streaming URL is
\* ws://HOST[:PORT]/pubsub, and for https://HOST[:PORT]/api it is
\* wss://HOST[:PORT]/pubsub.
C15_WsUrlKeepsHostAndPort ==
    \A t \in Threads, h \in Hosts, p \in Ports :
        (urlRet[t] # None /\ urlRet[t].fn = "get_ws_url")
            => /\ urlRet[t].written = Some(BaseUrl(HttpScheme, h, p))
                   => urlRet[t].val = WsScheme \o h \o p \o PubsubPath
               /\ urlRet[t].written = Some(BaseUrl(HttpsScheme, h, p))
                   => urlRet[t].val = WssScheme \o h \o p \o PubsubPath

\* the type tag of the operation each compose function serves
TypeTag(fn) ==
    CASE fn = "compose_add_colony_rpcmsg" -> Utf8("addcolonymsg")
      [] fn = "compose_add_executor_rpcmsg" -> Utf8("addexecutormsg")
      [] fn = "compose_assign_process_rpcmsg" -> Utf8("assignprocessmsg")
      [] fn = "compose_get_colonies_rpcmsg" -> Utf8("getcoloniesmsg")
      [] fn = "compose_channel_append_rpcmsg" -> Utf8("channelappendmsg")
      [] fn = "compose_subscribe_channel_rpcmsg" -> Utf8("subscribechannelmsg")

\* the request value of a call: its arguments under the names of the
\* message, with the type tag
RequestValue(c) ==
    CASE c.fn = "compose_add_colony_rpcmsg" ->
            [colony |-> c.colony, msgtype |-> TypeTag(c.fn)]
      [] c.fn = "compose_add_executor_rpcmsg" ->
            [executor |-> c.executor, msgtype |-> TypeTag(c.fn)]
      [] c.fn = "compose_assign_process_rpcmsg" ->
            [colonyname |-> c.colonyname, timeout |-> c.timeout, msgtype |-> TypeTag(c.fn)]
      [] c.fn = "compose_get_colonies_rpcmsg" -> [msgtype |-> TypeTag(c.fn)]
      [] c.fn = "compose_channel_append_rpcmsg" ->
            [msgtype |-> TypeTag(c.fn), processid |-> c.processid, name |-> c.channelname,
             sequence |-> c.sequence, inreplyto |-> c.inreplyto, payload |-> c.data]
      [] c.fn = "compose_subscribe_channel_rpcmsg" ->
            [processid |-> c.processid, name |-> c.channelname, afterseq |-> c.afterseq,
             timeout |-> c.timeout, msgtype |-> TypeTag(c.fn)]

\* the JSON object doc has a member for every field of the struct ty, and so
\* have the structs inside it
RECURSIVE HasAllFields(_, _)
HasAllFields(doc, ty) ==
    \/ ty \in {"str", "int", "bool", "bytes"}
    \/ /\ doc.k = "obj"
       /\ \A i \in 1..Len(Schema(ty)) :
              \E j \in 1..Len(doc.members) :
                  /\ doc.members[j].key = Utf8(Schema(ty)[i].key)
                  /\ HasAllFields(doc.members[j].val, Schema(ty)[i].ty)

\* the wire body decodes to the type tag and to the request value, whose
\* msgtype is the type tag
DecodesToRequest ==
    /\ decoded.ok
    /\ decoded.payloadtype = TypeTag(composeCall.fn)
    /\ decoded.json = Serialize(RequestValue(composeCall), MsgStruct(composeCall.fn))
    /\ decoded.msg = RequestValue(composeCall)
    /\ decoded.msg.msgtype = decoded.payloadtype

\* C16 as stated: decoding the wire body of a compose function gives back the
\* request: payloadtype is the type tag, the base64-decoded payload is the
\* JSON of the request value with a member for every one of its fields, and
\* the inner msgtype is payloadtype.
C16_PayloadHasAllFields ==
    decoded # None
        => /\ DecodesToRequest
           /\ HasAllFields(decoded.json, MsgStruct(composeCall.fn))

\* C16: decoding the wire body of a compose function gives back the request:
\* payloadtype is the type tag, the base64-decoded payload is the JSON that
\* serde writes for the request value, reading it as the message gives a
\* value equal to the request value, and the inner msgtype is payloadtype.
C16_DecodeGivesBackRequest == decoded # None => DecodesToRequest

C16_Witness ==
    /\ decoded # None /\ decoded.ok
    /\ composeCall.fn = "compose_add_executor_rpcmsg"
    /\ composeCall.executor.state = 0
    /\ composeCall.executor.executorname = <<34, 92>>
    /\ decoded.msg.executor.state = 0
    /\ ~HasAllFields(decoded.json, "AddExecutorRPCMsg")

\* SHA3-256 keeps the two texts apart: their digests differ, also as scalars
\* of the curve
DigestsDiffer(a, b) == Sha3_256(a)[1] % CurveN # Sha3_256(b)[1] % CurveN

\* SHA3-256 keeps the signer's public key apart from the others: no other
\* public key has the signer's identity
SignerIdUnique ==
    \A d \in 1..(CurveN - 1) :
        PointId(PointMul(d, CurveG)) = id.val => HexEncode(<<d>>) = prvkey

\* recid on the changed payload gave the identity of the original signer
TamperedYieldsSigner ==
    /\ tampered # None
    /\ tampered.result.tag = "ok"
    /\ tampered.result.val = id.val

\* C17: when one character of the base64 payload text of a composed envelope
\* is changed and the signature is kept, recid(changed payload, signature)
\* does not yield the identity of the original signer.  SHA3-256 is taken
\* to be free of collisions on the texts and keys involved: the statement
\* is about the changes that change the digest, and about signers whose
\* identity no other key shares.
C17_ChangedPayloadGivesOtherIdentity ==
    TamperedYieldsSigner
        => ~(DigestsDiffer(tampered.payload, rpcmsg.val.payload) /\ SignerIdUnique)

C17_Witness ==
    /\ tampered # None
    /\ envRecovered = id
    /\ tampered.result.tag = "ok"
    /\ tampered.result.val # id.val
    /\ DigestsDiffer(tampered.payload, rpcmsg.val.payload)
    /\ SignerIdUnique

(* C22: gen_id and gen_signature are deterministic: a second call with the
   same key gives the same identity, and a second call with the same message
   and key gives the same signature, whatever the random generator has
   given in between. *)
C22_SameInputsSameOutputs ==
    /\ idAgain # None => idAgain = id
    /\ sigAgain # None => sigAgain = signature

\* both calls made twice with a valid key, and a key generated from the
\* random generator meanwhile
C22_Witness ==
    /\ idAgain # None /\ idAgain.tag = "ok"
    /\ sigAgain # None /\ sigAgain.tag = "ok"
    /\ newKey # None

(* C23: outputs have a fixed width for every input: gen_prvkey gives two
   characters for each of the ScalarWidth bytes of a key, gen_id and gen_hash
   two for each of the DigestWidth bytes of a digest, and gen_signature two
   for each byte of r, s and the recovery byte (64, 64, 64 and 130
   characters at the 32-byte widths of k256 and SHA3-256). *)
C23_FixedWidths ==
    /\ newKey # None => Len(newKey.val) = 2 * ScalarWidth
    /\ (id # None /\ id.tag = "ok") => Len(id.val) = 2 * DigestWidth
    /\ hashOut # None => Len(hashOut.val) = 2 * DigestWidth
    /\ (signature # None /\ signature.tag = "ok")
          => Len(signature.val) = 2 * (2 * ScalarWidth + 1)

\* all four made, the key generated being one whose byte is below sixteen
C23_Witness ==
    /\ newKey = Some(<<48, 55>>)
    /\ id # None /\ id.tag = "ok"
    /\ hashOut # None
    /\ signature # None /\ signature.tag = "ok"

(* C24: for every timeout_secs passed to subscribe_channel the deadline
   computed is timeout_secs + 5 seconds: the conversion to the unsigned
   number of seconds and the addition neither wrap around nor abort. *)
C24_DeadlineIsTimeoutPlusGrace ==
    dlResult # None
        => /\ dlResult = Ok(dlTimeout + GraceSecs)
           /\ AsU64(dlTimeout) + GraceSecs < 2 ^ SecsBits

\* the session ended before the loop was reached: the socket did not open,
\* or the subscription frame could not be written
OpeningFailed == wsPc = "done" /\ endCause \in {"connectFailed", "connectTimeout", "sendFailed"}

\* the client takes an item off the stream
FrameRead == Len(inbox') < Len(inbox) \/ lastItem' # lastItem

\* C18: the library never retries and leaves nothing running: a one-shot
\* operation issues one POST and no more, a subscription opens at most one
\* socket and writes the subscription frame once on the socket it opened,
\* and after the call has returned there is no transport activity of the
\* client: no POST, no connect, no write and no read.
C18_NoRetryNothingLeftRunning ==
    /\ [](/\ posts <= 1 /\ wsConnects <= 1 /\ wsWrites <= 1
          /\ rpcPc \in {"awaiting", "done"} => posts = 1
          /\ wsPc \in {"sending", "listening", "done"} => wsConnects = 1
          /\ wsPc = "listening" => wsWrites = 1
          /\ wsPc = "done" =>
                 wsWrites = (IF endCause \in {"connectFailed", "connectTimeout"}
                             THEN 0 ELSE 1))
    /\ [][/\ rpcPc = "done" => UNCHANGED <<posts, rpcPc, opResult>>
          /\ wsPc = "done" =>
                 /\ UNCHANGED <<wsPc, wsConnects, wsWrites, wsResult, callbackLog>>
                 /\ ~FrameRead]_vars

C18_Witness ==
    /\ wsFn = "channel" /\ wsPc = "done"
    /\ wsConnects = 1 /\ wsWrites = 1
    /\ Len(callbackLog) = 1
    /\ inbox # <<>>

\* C19: in both subscriptions a failure to open the socket, the connect
\* timeout included, or to write the subscription frame is returned as an
\* error with connection_error set, and the consumer has not been invoked.
C19_OpeningFailureIsConnectionError ==
    /\ [](OpeningFailed
             => /\ wsResult.tag = "err" /\ wsResult.connection_error
                /\ callbackLog = <<>> /\ lastItem = NoItem)
    /\ [][(wsPc \in {"connecting", "sending"} /\ wsPc' = "done") => OpeningFailed']_vars

C19_Witness ==
    /\ wsFn = "channel" /\ OpeningFailed /\ endCause = "connectTimeout"
    /\ wsResult.connection_error

\* C20: a session goes from connecting to sending to listening to its end,
\* or from connecting or sending straight to its end; a frame is read and
\* the consumer invoked only while listening, with the subscription frame
\* written, so never before that and never after the end.
C20_PhasesInOrder ==
    [][/\ wsPc' # wsPc
           => <<wsPc, wsPc'>> \in {<<"connecting", "sending">>, <<"sending", "listening">>,
                                  <<"listening", "done">>, <<"connecting", "done">>,
                                  <<"sending", "done">>}
       /\ (FrameRead \/ callbackLog' # callbackLog)
           => wsPc = "listening" /\ wsWrites = 1]_vars

C20_Witness ==
    /\ wsFn = "channel" /\ wsPc = "done" /\ endCause = "consumerStop"
    /\ Len(callbackLog) = 2
    /\ inbox # <<>>

\* the item is a text frame holding a reply without the error flag whose
\* payload decodes to a list of entries that is not empty
IsBatch(item) ==
    /\ item.type = "text"
    /\ item.body.kind = "reply" /\ ~item.body.error
    /\ DecodePayload(item.body.payload).ok
    /\ ParseChannelEntries(DecodePayload(item.body.payload).text).ok
    /\ FrameEntries(item.body) # <<>>

\* the non-empty batches among the items read from one socket, in the order read
RECURSIVE OwnBatches(_)
OwnBatches(got) ==
    IF got = <<>> THEN <<>>
    ELSE (IF IsBatch(Head(got)) THEN <<FrameEntries(Head(got).body)>> ELSE <<>>)
            \o OwnBatches(Tail(got))

\* the entries the server sends on the socket of session s
SocketEntries(s) ==
    LET batch == ParseChannelEntries(PairBatch(s)).val
    IN  {batch[i] : i \in 1..Len(batch)}

(* C21: with two subscribe_channel sessions and a request-response operation
   interleaved in any way, the consumer of each session has been given
   exactly the non-empty batches read from that session's own socket, in the
   order read; the buffer of the session, and the result it returns with Ok,
   is their concatenation and holds no entry of the other socket; and the
   result of the request-response operation is that of its own response. *)
C21_SessionsAreIndependent ==
    /\ \A s \in Sessions :
          /\ [i \in 1..Len(sess[s].log) |-> sess[s].log[i].batch] = OwnBatches(sess[s].got)
          /\ sess[s].all = Delivered(sess[s].log)
          /\ sess[s].result.tag = "ok" => sess[s].result.val = Delivered(sess[s].log)
          /\ \A o \in Sessions \ {s} : \A i \in 1..Len(sess[s].all) :
                sess[s].all[i] \notin SocketEntries(o)
    /\ rpcPc = "done" /\ resp # None => opResult = OpResult(op, send_rpcmsg(resp))

\* both sessions have returned Ok, each with two batches of its own socket,
\* and the request-response operation has returned Ok
C21_Witness ==
    /\ \A s \in Sessions :
          /\ sess[s].pc = "done" /\ sess[s].result.tag = "ok"
          /\ Len(sess[s].log) = 2
    /\ rpcPc = "done" /\ opResult.tag = "ok"


(* C25: on every Ok return of subscribe_channel the result is the
   concatenation, in the order of arrival, of exactly the batches passed to
   the consumer: every frame read that holds a non-empty batch and no error
   is passed to the consumer once, when it is read, no other item read is
   passed to it, and it is never invoked with an empty batch. *)
C25_OkIsWhatTheConsumerSaw ==
    /\ [](wsFn = "channel" =>
            /\ \A i \in 1..Len(callbackLog) : callbackLog[i].batch # <<>>
            /\ (wsPc = "done" /\ wsResult.tag = "ok")
                  => wsResult.val = Delivered(callbackLog))
    /\ [][(wsFn = "channel" /\ wsPc = "listening" /\ FrameRead) =>
            IF IsBatch(lastItem')
            THEN \E r \in BOOLEAN :
                    callbackLog' = Append(callbackLog,
                                          [batch |-> FrameEntries(lastItem'.body), ret |-> r])
            ELSE callbackLog' = callbackLog]_vars

\* Ok returned with the three entries of two batches, the consumer having
\* answered true to both
C25_Witness ==
    /\ wsFn = "channel" /\ wsPc = "done" /\ wsResult.tag = "ok"
    /\ Len(callbackLog) = 2 /\ callbackLog[2].ret
    /\ Len(wsResult.val) = 3


\* the last item read makes send_ws_subscribe_channel return an error: an
\* error-flagged reply holding a Failure, a text that is no reply envelope,
\* or a transport error
LastIsError ==
    \/ lastItem.type = "wserror"
    \/ lastItem.type = "text" /\ lastItem.body.kind # "reply"
    \/ /\ LastIsReply /\ lastItem.body.error
       /\ DecodePayload(lastItem.body.payload).ok
       /\ ParseFailure(DecodePayload(lastItem.body.payload).text).ok

(* C26: when subscribe_channel ends with an error after batches were
   delivered (an error frame, a transport error or a text that is no reply
   envelope in mid-stream), the accumulated entries are not returned: the
   result is the error and nothing else, and the invocations of the consumer
   are the only record of the entries accumulated. *)
C26_ErrorReturnsNoEntries ==
    (wsFn = "channel" /\ wsPc = "done" /\ callbackLog # <<>> /\ LastIsError)
        => /\ wsResult.tag = "err"
           /\ DOMAIN wsResult = {"tag", "details", "connection_error"}
           /\ Delivered(callbackLog) = allEntries

\* an error-flagged frame ended a session that had delivered two batches
C26_Witness ==
    /\ wsFn = "channel" /\ wsPc = "done" /\ wsResult.tag = "err"
    /\ LastIsReply /\ lastItem.body.error
    /\ Len(callbackLog) = 2

(* C27: a binary, ping or pong frame read while listening leaves the session
   as it was: the consumer is not invoked, the buffer is unchanged, and the
   session stays listening with nothing returned. *)
C27_OtherFramesChangeNothing ==
    [][(/\ wsFn = "channel" /\ wsPc = "listening"
        /\ inbox # <<>> /\ Head(inbox).type \in NonTextTypes
        /\ FrameRead)
          => UNCHANGED <<callbackLog, allEntries, wsPc, wsResult>>]_vars

\* a ping frame has been read after a batch, and the session listens on
C27_Witness ==
    /\ wsFn = "channel" /\ wsPc = "listening"
    /\ lastItem.type = "ping"
    /\ callbackLog # <<>> /\ allEntries # <<>>


(* C28: each request-response operation and each subscription reads the
   configured server URL once, at its start: the endpoint it connects to is
   the one derived from the URL stored at that read, whatever set_server_url
   calls write or complete afterwards. *)
C28_UrlReadOnceAtStart ==
    /\ reqPc \in {"connecting", "done"} => reqReads = 1
    /\ reqTarget # None => reqTarget.val = ReqUrlOf(reqKind, reqSeen)

\* the operation has connected after a set_server_url call, begun after the
\* read, has completed with another URL
C28_Witness ==
    /\ reqTarget # None
    /\ serverUrl # reqSeen
    /\ lastCompleted = serverUrl
    /\ reqTarget.val # ReqUrlOf(reqKind, serverUrl)


(* C29: channel_append transmits every argument of its caller in the signed
   payload: the decoded payload has, beside the members msgtype, processid
   and name, a member whose value is the data_type text, the type of the
   appended entry. *)
C29_PayloadCarriesDataType ==
    (decoded # None /\ composeCall.fn = "compose_channel_append_rpcmsg")
        => /\ decoded.ok
           /\ \E j \in 1..Len(decoded.json.members) :
                 /\ decoded.json.members[j].key
                        \notin {Utf8("msgtype"), Utf8("processid"), Utf8("name")}
                 /\ decoded.json.members[j].val = TStr(composeCall.data_type)


====
